---- MODULE Spec2Model ----
(* Verification model of the flux-relay command-line client.                *)
(* Text is modelled as sequences of one-character strings, so that the      *)
(* string operations of the shell (trimming, prefix tests, case folding)    *)
(* are computed the way the Go code computes them.                          *)
EXTENDS Integers, Sequences, FiniteSets, TLC

(* ------------------------------------------------------------------ *)
(* Go "strings" package, over sequences of characters                  *)
(* ------------------------------------------------------------------ *)

LowerLetters == <<"a", "b", "c", "d", "e", "f", "g", "h", "i", "j", "k", "l", "m", "n", "o", "p", "q", "r", "s", "t", "u", "v", "w", "x", "y", "z">>
UpperLetters == <<"A", "B", "C", "D", "E", "F", "G", "H", "I", "J", "K", "L", "M", "N", "O", "P", "Q", "R", "S", "T", "U", "V", "W", "X", "Y", "Z">>

(* unicode.ToUpper / unicode.ToLower on the letters, as tables *)
UpperOf == [c \in {LowerLetters[i] : i \in 1..26} |->
               UpperLetters[CHOOSE i \in 1..26 : LowerLetters[i] = c]]

LowerOf == [c \in {UpperLetters[i] : i \in 1..26} |->
               LowerLetters[CHOOSE i \in 1..26 : UpperLetters[i] = c]]

ToUpperChar(c) == IF c \in DOMAIN UpperOf THEN UpperOf[c] ELSE c

ToLowerChar(c) == IF c \in DOMAIN LowerOf THEN LowerOf[c] ELSE c

ToUpper(s) == [i \in 1..Len(s) |-> ToUpperChar(s[i])]

ToLower(s) == [i \in 1..Len(s) |-> ToLowerChar(s[i])]

IsSpace(c) == c \in {" ", "\t"}

IsDigit(c) == c \in {"0", "1", "2", "3", "4", "5", "6", "7", "8", "9"}

RECURSIVE TrimLeftSpace(_)
TrimLeftSpace(s) == IF s # <<>> /\ IsSpace(Head(s)) THEN TrimLeftSpace(Tail(s)) ELSE s

RECURSIVE TrimRightSpace(_)
TrimRightSpace(s) == IF s # <<>> /\ IsSpace(s[Len(s)]) THEN TrimRightSpace(SubSeq(s, 1, Len(s) - 1)) ELSE s

TrimSpace(s) == TrimRightSpace(TrimLeftSpace(s))

HasPrefix(s, p) == Len(s) >= Len(p) /\ SubSeq(s, 1, Len(p)) = p

HasSuffix(s, p) == Len(s) >= Len(p) /\ SubSeq(s, Len(s) - Len(p) + 1, Len(s)) = p

(* mutant: the suffix is left in place *)
TrimSuffixKeepsIt(s, p) == s

TrimSuffix(s, p) == IF HasSuffix(s, p) THEN SubSeq(s, 1, Len(s) - Len(p)) ELSE s

Contains(s, p) == \E i \in 1..(Len(s) - Len(p) + 1) : SubSeq(s, i, i + Len(p) - 1) = p

RECURSIVE Fields(_)
Fields(s) ==
    LET t == TrimLeftSpace(s)
        n == IF \E i \in 1..Len(t) : IsSpace(t[i])
             THEN (CHOOSE i \in 1..Len(t) : IsSpace(t[i]) /\ \A j \in 1..(i - 1) : ~IsSpace(t[j])) - 1
             ELSE Len(t)
    IN  IF t = <<>> THEN <<>>
        ELSE <<SubSeq(t, 1, n)>> \o Fields(SubSeq(t, n + 1, Len(t)))

RECURSIVE Join(_, _)
Join(parts, sep) ==
    IF parts = <<>> THEN <<>>
    ELSE IF Len(parts) = 1 THEN parts[1]
    ELSE parts[1] \o sep \o Join(Tail(parts), sep)

(* regexp `LIMIT\s+(\d+)` : LIMIT, one or more blanks, then a digit *)
limitPatternMatch(s) ==
    \E i \in 1..Len(s) : \E j \in (i + 6)..Len(s) :
        /\ SubSeq(s, i, i + 4) = <<"L", "I", "M", "I", "T">>
        /\ \A k \in (i + 5)..(j - 1) : IsSpace(s[k])
        /\ IsDigit(s[j])

(* ------------------------------------------------------------------ *)
(* String literals of cmd/shell.go                                     *)
(* ------------------------------------------------------------------ *)

CmdQuit == <<".", "q", "u", "i", "t">>

CmdExit == <<".", "e", "x", "i", "t">>

CmdQ == <<".", "q">>

CmdHelp == <<".", "h", "e", "l", "p">>

CmdH == <<".", "h">>

CmdExamples == <<".", "e", "x", "a", "m", "p", "l", "e", "s">>

CmdEx == <<".", "e", "x">>

CmdClear == <<".", "c", "l", "e", "a", "r">>

CmdC == <<".", "c">>

CmdContext == <<".", "c", "o", "n", "t", "e", "x", "t">>

CmdCtx == <<".", "c", "t", "x">>

CmdTables == <<".", "t", "a", "b", "l", "e", "s">>

CmdNameservers == <<".", "n", "a", "m", "e", "s", "e", "r", "v", "e", "r", "s">>

CmdNs == <<".", "n", "s">>

CmdUse == <<".", "u", "s", "e">>

CmdCreateNs == <<".", "c", "r", "e", "a", "t", "e", "_", "n", "s">>

CmdCreateNameserver == <<".", "c", "r", "e", "a", "t", "e", "_", "n", "a", "m", "e", "s", "e", "r", "v", "e", "r">>

CmdInitNs == <<".", "i", "n", "i", "t", "_", "n", "s">>

CmdInitNameserver == <<".", "i", "n", "i", "t", "_", "n", "a", "m", "e", "s", "e", "r", "v", "e", "r">>

CmdInitialize == <<".", "i", "n", "i", "t", "i", "a", "l", "i", "z", "e">>

CmdSchema == <<".", "s", "c", "h", "e", "m", "a">>

CmdCreateTable == <<".", "c", "r", "e", "a", "t", "e", "_", "t", "a", "b", "l", "e">>

CmdCreate == <<".", "c", "r", "e", "a", "t", "e">>

CmdDropTable == <<".", "d", "r", "o", "p", "_", "t", "a", "b", "l", "e">>

CmdDrop == <<".", "d", "r", "o", "p">>

CmdAlterTable == <<".", "a", "l", "t", "e", "r", "_", "t", "a", "b", "l", "e">>

CmdAlter == <<".", "a", "l", "t", "e", "r">>

SqlPrefix == <<"s", "q", "l", " ">>

SpLimit == <<" ", "L", "I", "M", "I", "T">>

SpLimitSp == <<" ", "L", "I", "M", "I", "T", " ">>

Limit == <<"L", "I", "M", "I", "T">>

TablesQuery == <<"S", "E", "L", "E", "C", "T", " ", "n", "a", "m", "e", " ", "F", "R", "O", "M", " ", "s", "q", "l", "i", "t", "e", "_", "m", "a", "s", "t", "e", "r", " ", "W", "H", "E", "R", "E", " ", "t", "y", "p", "e", "=", "'", "t", "a", "b", "l", "e", "'", " ", "A", "N", "D", " ", "n", "a", "m", "e", " ", "N", "O", "T", " ", "L", "I", "K", "E", " ", "'", "s", "q", "l", "i", "t", "e", "_", "%", "'", " ", "O", "R", "D", "E", "R", " ", "B", "Y", " ", "n", "a", "m", "e">>

SchemaQueryHead == <<"S", "E", "L", "E", "C", "T", " ", "s", "q", "l", " ", "F", "R", "O", "M", " ", "s", "q", "l", "i", "t", "e", "_", "m", "a", "s", "t", "e", "r", " ", "W", "H", "E", "R", "E", " ", "t", "y", "p", "e", "=", "'", "t", "a", "b", "l", "e", "'", " ", "A", "N", "D", " ", "n", "a", "m", "e", " ", "=", " ", "'">>

DropQueryHead == <<"D", "R", "O", "P", " ", "T", "A", "B", "L", "E", " ">>

(* ------------------------------------------------------------------ *)
(* Bounds and inputs                                                   *)
(* ------------------------------------------------------------------ *)

(* most lines the model lets the pending buffer hold *)
MaxLines == 2

(* lines the user may type (raw, before any trimming) *)
TextLines ==
    { <<" ", "b", " ">>, <<"'", "a", "'">>, <<"s", "q", "l", " ", "a">>,
      <<"a", " ", "L", "I", "M", "I", "T">>,
      <<"l", "i", "m", "i", "t", "L", "I", "M", "I", "T">>,
      <<"a", ";">>, <<";">>, <<"'", "a", "'", ";">>,
      <<"S", "q", "l", " ", "'", "a", "'", ";">>,
      <<"a", " ", "l", "i", "m", "i", "t", "L", "I", "M", "I", "T", ";">>,
      <<"\"", "'", "a", "'", "\"", ";">>,
      <<"a", " ", "L", "I", "M", "I", "T", ";">>,
      <<"a", " ", "l", "i", "m", "i", "t", " ", "1", ";">> }

BlankLines == { <<>>, <<" ", "\t">> }

MetaLines ==
    { <<".", "q">>, <<"S", "Q", "L", " ", ".", "q", "u", "i", "t">>,
      <<".", "x">>, <<".", "c">>, <<".", "h", "e", "l", "p">>,
      <<".", "t", "a", "b", "l", "e", "s">>,
      <<".", "u", "s", "e">>, <<".", "u", "s", "e", " ", "n">>, <<".", "u", "s", "e", " ", "N">>,
      <<".", "c", "r", "e", "a", "t", "e", "_", "n", "s", " ", "n">>,
      <<".", "i", "n", "i", "t", "_", "n", "s">>,
      <<".", "d", "r", "o", "p", "_", "t", "a", "b", "l", "e", " ", "T">> }

InputLines == TextLines \cup BlankLines \cup MetaLines

(* api.Database, as far as the shell reads it *)
Database(id, name, active) == [ID |-> id, DatabaseName |-> name, IsActive |-> active]

(* nameserver lists the API may return for a ListDatabases call *)
DatabaseLists ==
    { <<Database(<<"1">>, <<"N">>, TRUE), Database(<<"2">>, <<"n">>, FALSE)>>,
      <<Database(<<"2">>, <<"n">>, FALSE), Database(<<"3">>, <<"n">>, TRUE)>> }

(* outcome of one ListDatabases call: a list, or an error *)
ListResults == { [called |-> TRUE, ok |-> TRUE, dbs |-> d] : d \in DatabaseLists }
               \cup { [called |-> TRUE, ok |-> FALSE, dbs |-> <<>>] }

NotListed == [called |-> FALSE, ok |-> FALSE, dbs |-> <<>>]

(* outcomes of the API calls a meta-command makes: the listing and the   *)
(* create / initialize request                                           *)
ApiOutcomes == [list : ListResults, ok : BOOLEAN]

(* outcomes of an ExecuteQuery call *)
QueryOutcomes == {"ok", "error"}

(* shellContext values the shell may be started with *)
InitContexts ==
    { [projectID |-> "p1", serverID |-> "s1", serverName |-> "MyServer",
       nameserverID |-> <<>>, nameserverName |-> <<>>],
      [projectID |-> "p1", serverID |-> "s1", serverName |-> "MyServer",
       nameserverID |-> <<"1">>, nameserverName |-> <<"N">>] }

(* ------------------------------------------------------------------ *)
(* State of startShellWithContext                                      *)
(* ------------------------------------------------------------------ *)

VARIABLES
    pc,            \* position of the read loop
    hpc,           \* position of the Ctrl+C goroutine
    currentQuery,  \* the pending query buffer (strings.Builder)
    line,          \* the line being processed, trimmed and without "sql "
    query,         \* the statement handed to executeQuery
    ctx,           \* the shellContext
    out,           \* what the read loop printed while processing the line
    calls,         \* API requests made while processing the line
    listed,        \* result of the ListDatabases call made for the line
    sigOut,        \* notice just printed by the Ctrl+C goroutine
    exit,          \* why the shell ended, "none" while it runs
    kind,          \* which branch of the loop body the line took
    raw,           \* the line as typed
    pending,       \* the lines whose text is in currentQuery
    typed,         \* the same lines, as they were typed
    intr,          \* the Ctrl+C goroutine ran while the line was processed
    hadQuery,      \* currentQuery was not empty when the line was read
    ctxAtScan      \* ctx when the line was read

shellVars == <<pc, hpc, currentQuery, line, query, ctx, out, calls, listed, sigOut,
               exit, kind, raw, pending, typed, intr, hadQuery, ctxAtScan>>

(* one call of executeQuery, from the reply of the API to what is printed *)
VARIABLES
    qpc,           \* position in executeQuery
    reply,         \* what the server answered to the query request
    queryResponse, \* what client.ExecuteQuery returned
    printed        \* the lines executeQuery printed, in order

queryVars == <<qpc, reply, queryResponse, printed>>

(* one call of pollForToken *)
VARIABLES
    ppc,           \* position in pollForToken
    pollCount,     \* the attempt counter
    getTokenCalls, \* number of client.GetToken calls made
    last,          \* what the latest client.GetToken call returned
    polled         \* what pollForToken returned

pollVars == <<ppc, pollCount, getTokenCalls, last, polled>>

(* one run of "server list", from the answer of ListServers on *)
VARIABLES
    spc,               \* position of runServerList
    servers,           \* serversResponse.Servers
    idx,               \* index of the loop runServerList is in
    wg,                \* counter of the WaitGroup
    tasks,             \* the count-fetch goroutines: state and fetch result
    serversWithCounts, \* result slots
    errors,            \* error slots
    table,             \* the rows of the table printed so far
    warnings,          \* the servers named in the warnings
    listCalls,         \* server IDs ListDatabases was called with
    writers            \* per slot, who wrote it and where runServerList was then

serverVars == <<spc, servers, idx, wg, tasks, serversWithCounts, errors, table,
                warnings, listCalls, writers>>

(* the commands of the CLI, run one after another against the local config *)
VARIABLES
    file,          \* the config file ~/.flux-relay/config.json
    selProject,    \* the selected project ID, "" if none
    selServer,     \* the selected server ID, "" if none
    command,       \* the command that has just returned, if any
    cerr,          \* the error the command returned, "nil" if none
    requests,      \* number of API requests the command made
    authCalls,     \* the requests login or config set token made, with their outcomes
    notice         \* what login or config set token reported

cliVars == <<file, selProject, selServer, command, cerr, requests, authCalls, notice>>

outsideShell == <<queryVars, pollVars, serverVars, cliVars>>

vars == <<shellVars, queryVars, pollVars, serverVars, cliVars>>

(* no login is going on *)
PollOff ==
    /\ ppc = "off"
    /\ pollCount = 0
    /\ getTokenCalls = 0
    /\ last = <<>>
    /\ polled = <<>>

(* no server listing is going on *)
ServersOff ==
    /\ spc = "off"
    /\ servers = <<>>
    /\ idx = 0
    /\ wg = 0
    /\ tasks = <<>>
    /\ serversWithCounts = <<>>
    /\ errors = <<>>
    /\ table = <<>>
    /\ warnings = {}
    /\ listCalls = <<>>
    /\ writers = <<>>

(* no command line is followed *)
CliOff ==
    /\ file = <<>>
    /\ selProject = ""
    /\ selServer = ""
    /\ command = <<>>
    /\ cerr = "nil"
    /\ requests = 0
    /\ authCalls = <<>>
    /\ notice = ""

(* the part of executeQuery after the request is not followed *)
QueryOff ==
    /\ qpc = "off"
    /\ reply = <<>>
    /\ queryResponse = <<>>
    /\ printed = <<>>

Init ==
    /\ pc = "prompt"
    /\ hpc = "wait"
    /\ currentQuery = <<>>
    /\ line = <<>>
    /\ query = <<>>
    /\ ctx \in InitContexts
    /\ out = {}
    /\ calls = <<>>
    /\ listed = NotListed
    /\ sigOut = "none"
    /\ exit = "none"
    /\ kind = "none"
    /\ raw = <<>>
    /\ pending = <<>>
    /\ typed = <<>>
    /\ intr = FALSE
    /\ hadQuery = FALSE
    /\ ctxAtScan = ctx
    /\ QueryOff
    /\ PollOff
    /\ ServersOff
    /\ CliOff

(* ------------------------------------------------------------------ *)
(* Meta-command dispatch (the switch on cmd)                           *)
(* ------------------------------------------------------------------ *)

ApiCall(op, arg) == [op |-> op, arg |-> arg]

(* index of the first listed nameserver whose name or ID is ident, 0 if none *)
findDatabase(dbs, ident) ==
    LET M == { i \in 1..Len(dbs) : dbs[i].DatabaseName = ident \/ dbs[i].ID = ident }
    IN  IF M = {} THEN 0 ELSE CHOOSE i \in M : \A j \in M : i <= j

NoEffect(c) ==
    [label |-> "none", out |-> {}, calls |-> <<>>, ctx |-> c, exec |-> <<>>,
     listed |-> NotListed, clear |-> FALSE]

caseUse(cmd, c, api) ==
    LET parts == Fields(cmd)
        found == findDatabase(api.list.dbs, parts[2])
        base  == [NoEffect(c) EXCEPT !.label = "use"]
    IN  IF Len(parts) > 1
        THEN LET listing == [base EXCEPT !.calls = <<ApiCall("ListDatabases", <<>>)>>,
                                         !.listed = api.list]
             IN  IF ~api.list.ok THEN [listing EXCEPT !.out = {"error"}]
                 ELSE IF found = 0 THEN [listing EXCEPT !.out = {"ns_not_found"}]
                 ELSE [listing EXCEPT
                          !.out = {"switched"},
                          !.ctx = [c EXCEPT !.nameserverID = api.list.dbs[found].ID,
                                            !.nameserverName = api.list.dbs[found].DatabaseName]]
        ELSE [base EXCEPT !.out = {"current_ns"}]

(* "check existing nameservers to help debug conflicts": the warnings    *)
(* printed for the entries of the listing whose name is the requested    *)
(* one up to letter case, up to the first that differs in case (where    *)
(* the loop is left)                                                     *)
preflightWarnings(list, name) ==
    LET dbs == list.dbs
        similar == { i \in 1..Len(dbs) : ToLower(dbs[i].DatabaseName) = ToLower(name) }
        conflicts == { i \in similar : dbs[i].DatabaseName # name }
        stop == IF conflicts = {} THEN Len(dbs)
                ELSE CHOOSE i \in conflicts : \A j \in conflicts : i <= j
    IN  { IF dbs[i].DatabaseName # name THEN "ns_conflict"
          ELSE IF dbs[i].IsActive THEN "ns_exists" ELSE "ns_reactivated" :
             i \in { k \in similar : k <= stop } }

(* mutant: nothing is created when the listing shows the name already *)
caseCreateNsStopsOnDuplicate(cmd, c, api) ==
    LET parts == Fields(cmd)
        nameserverName == Join(SubSeq(parts, 2, Len(parts)), <<" ">>)
        base == [NoEffect(c) EXCEPT !.label = "create_ns"]
    IN  IF Len(parts) > 1
        THEN IF preflightWarnings(api.list, nameserverName) # {}
             THEN [base EXCEPT
                      !.calls = <<ApiCall("ListDatabases", <<>>)>>,
                      !.listed = api.list,
                      !.out = preflightWarnings(api.list, nameserverName)]
             ELSE [base EXCEPT
                      !.calls = <<ApiCall("ListDatabases", <<>>),
                                  ApiCall("CreateNameserver", nameserverName)>>,
                      !.listed = api.list,
                      !.out = {"creating"} \cup (IF api.ok THEN {"created"} ELSE {"error"})]
        ELSE [base EXCEPT !.out = {"usage"}]

caseCreateNs(cmd, c, api) ==
    LET parts == Fields(cmd)
        nameserverName == Join(SubSeq(parts, 2, Len(parts)), <<" ">>)
        base == [NoEffect(c) EXCEPT !.label = "create_ns"]
    IN  IF Len(parts) > 1
        THEN [base EXCEPT
                 !.calls = <<ApiCall("ListDatabases", <<>>), ApiCall("CreateNameserver", nameserverName)>>,
                 !.listed = api.list,
                 !.out = preflightWarnings(api.list, nameserverName) \cup {"creating"}
                            \cup (IF api.ok THEN {"created"} ELSE {"error"})]
        ELSE [base EXCEPT !.out = {"usage"}]

caseInitNs(cmd, c, api) ==
    LET parts == Fields(cmd)
        nameserverIdentifier == Join(SubSeq(parts, 2, Len(parts)), <<" ">>)
        found == findDatabase(api.list.dbs, nameserverIdentifier)
        base == [NoEffect(c) EXCEPT !.label = "init_ns"]
        initialize(id, b) ==
            [b EXCEPT !.calls = b.calls \o <<ApiCall("InitializeNameserver", id)>>,
                      !.out = {"initializing"} \cup (IF api.ok THEN {"initialized"} ELSE {"error"})]
    IN  IF Len(parts) > 1
        THEN LET listing == [base EXCEPT !.calls = <<ApiCall("ListDatabases", <<>>)>>,
                                         !.listed = api.list]
             IN  IF ~api.list.ok THEN [listing EXCEPT !.out = {"error"}]
                 ELSE IF found = 0 THEN [listing EXCEPT !.out = {"ns_not_found"}]
                 ELSE initialize(api.list.dbs[found].ID, listing)
        ELSE IF c.nameserverID # <<>> THEN initialize(c.nameserverID, base)
        ELSE [base EXCEPT !.out = {"usage"}]

caseSchema(cmd, c) ==
    LET parts == Fields(cmd)
        base == [NoEffect(c) EXCEPT !.label = "schema"]
    IN  IF Len(parts) > 1
        THEN [base EXCEPT !.exec = <<SchemaQueryHead \o parts[2] \o <<"'">> >>]
        ELSE [base EXCEPT !.out = {"usage"}]

caseDropTable(cmd, c) ==
    LET parts == Fields(cmd)
        base == [NoEffect(c) EXCEPT !.label = "drop_table"]
    IN  IF Len(parts) > 1
        THEN [base EXCEPT !.out = {"drop_guidance"},
                          !.exec = <<DropQueryHead \o parts[2]>>]
        ELSE [base EXCEPT !.out = {"usage"}]

caseTables(c, api) ==
    [NoEffect(c) EXCEPT
        !.label = "tables",
        !.calls = <<ApiCall("ListDatabases", <<>>)>>,
        !.listed = api.list,
        !.out = IF ~api.list.ok THEN {"note_list_failed"}
                ELSE IF Len(api.list.dbs) = 0 THEN {"note_no_nameservers"}
                ELSE IF \E i \in 1..Len(api.list.dbs) : api.list.dbs[i].IsActive
                     THEN {"showing_tables"} ELSE {},
        !.exec = <<TablesQuery>>]

caseNameservers(c, api) ==
    [NoEffect(c) EXCEPT
        !.label = "nameservers",
        !.calls = <<ApiCall("ListDatabases", <<>>)>>,
        !.listed = api.list,
        !.out = IF api.list.ok THEN {"nameserver_list"} ELSE {"error"}]

(* mutant: an unknown command also drops the nameserver selection *)
caseDefaultDropsContext(c) ==
    [NoEffect(c) EXCEPT !.label = "unknown", !.out = {"unknown"},
                        !.ctx = [c EXCEPT !.nameserverID = <<>>, !.nameserverName = <<>>]]

(* default: "Unknown command" *)
caseDefault(c) == [NoEffect(c) EXCEPT !.label = "unknown", !.out = {"unknown"}]

(* the switch at "Handle special commands": cmd is the line, lower-cased *)
metaCommand(cmd, c, api) ==
    IF cmd = CmdQuit \/ cmd = CmdExit \/ cmd = CmdQ
        THEN [NoEffect(c) EXCEPT !.label = "quit", !.out = {"goodbye"}]
    ELSE IF cmd = CmdHelp \/ cmd = CmdH
        THEN [NoEffect(c) EXCEPT !.label = "help", !.out = {"help"}]
    ELSE IF cmd = CmdExamples \/ cmd = CmdEx
        THEN [NoEffect(c) EXCEPT !.label = "examples", !.out = {"examples"}]
    ELSE IF cmd = CmdClear \/ cmd = CmdC
        THEN [NoEffect(c) EXCEPT !.label = "clear", !.out = {"cleared"}, !.clear = TRUE]
    ELSE IF cmd = CmdContext \/ cmd = CmdCtx
        THEN [NoEffect(c) EXCEPT !.label = "context", !.out = {"context"}]
    ELSE IF cmd = CmdTables
        THEN caseTables(c, api)
    ELSE IF cmd = CmdNameservers \/ cmd = CmdNs
        THEN caseNameservers(c, api)
    ELSE IF HasPrefix(cmd, CmdUse)
        THEN caseUse(cmd, c, api)
    ELSE IF HasPrefix(cmd, CmdCreateNs) \/ HasPrefix(cmd, CmdCreateNameserver)
        THEN caseCreateNs(cmd, c, api)
    ELSE IF HasPrefix(cmd, CmdInitNs) \/ HasPrefix(cmd, CmdInitNameserver) \/ HasPrefix(cmd, CmdInitialize)
        THEN caseInitNs(cmd, c, api)
    ELSE IF HasPrefix(cmd, CmdSchema)
        THEN caseSchema(cmd, c)
    ELSE IF HasPrefix(cmd, CmdCreateTable) \/ HasPrefix(cmd, CmdCreate)
        THEN [NoEffect(c) EXCEPT !.label = "create_table", !.out = {"create_guidance"}]
    ELSE IF HasPrefix(cmd, CmdDropTable) \/ HasPrefix(cmd, CmdDrop)
        THEN caseDropTable(cmd, c)
    ELSE IF HasPrefix(cmd, CmdAlterTable) \/ HasPrefix(cmd, CmdAlter)
        THEN [NoEffect(c) EXCEPT !.label = "alter_table", !.out = {"alter_guidance"}]
    ELSE caseDefault(c)

(* ------------------------------------------------------------------ *)
(* The read loop, one action per step between two accesses to the      *)
(* shared buffer                                                       *)
(* ------------------------------------------------------------------ *)

(* the line after TrimSpace and removal of an "sql " prefix *)
hasSqlPrefix(rawLine) == HasPrefix(ToLower(TrimSpace(rawLine)), SqlPrefix)

(* mutant: the prefix is left in place *)
stripSqlPrefixKeepsIt(rawLine) == TrimSpace(rawLine)

stripSqlPrefix(rawLine) ==
    LET l == TrimSpace(rawLine)
    IN  IF l # <<>> /\ hasSqlPrefix(rawLine) THEN TrimSpace(SubSeq(l, 5, Len(l))) ELSE l

(* the API outcomes that matter to a line: those of the calls it makes *)
DefaultApi == [list |-> NotListed, ok |-> TRUE]

ApiFor(rawLine, c) ==
    LET l == stripSqlPrefix(rawLine)
        m == metaCommand(ToLower(TrimSpace(l)), c, DefaultApi)
    IN  IF l = <<>> \/ ~HasPrefix(l, <<".">>) \/ m.calls = <<>> THEN {DefaultApi}
        ELSE IF Len(m.calls) = 1 /\ m.calls[1].op = "ListDatabases"
             THEN {a \in ApiOutcomes : a.ok}
        ELSE ApiOutcomes

(* a step of the read loop ends the notice of the Ctrl+C goroutine *)
MainStep == sigOut' = "none"

(* the loop body is left by "continue": back to the prompt *)
Continue == pc' = "prompt"

(* the line has been processed and the next prompt is not yet shown *)
Completed == pc = "prompt" /\ kind # "none"

(* top of the loop: the prompt is chosen by currentQuery.Len(); the     *)
(* variables of the loop body start afresh                              *)
Prompt ==
    /\ pc = "prompt"
    /\ MainStep
    /\ pc' = "scan"
    /\ line' = <<>>
    /\ query' = <<>>
    /\ raw' = <<>>
    /\ out' = {IF Len(currentQuery) = 0 THEN "prompt_new" ELSE "prompt_more"}
    /\ calls' = <<>>
    /\ listed' = NotListed
    /\ kind' = "none"
    /\ intr' = (hpc # "wait")
    /\ hadQuery' = FALSE
    /\ ctxAtScan' = ctx
    /\ UNCHANGED <<hpc, currentQuery, ctx, exit, pending, typed>>
    /\ UNCHANGED outsideShell

(* scanner.Scan() returned a line: trim it, strip "sql ", pick the branch; *)
(* a meta-command is dispatched here, up to its executeQuery call          *)
Scan(rawLine, api) ==
    LET l == stripSqlPrefix(rawLine)
        m == metaCommand(ToLower(TrimSpace(l)), ctx, api)
        hint == IF l # <<>> /\ hasSqlPrefix(rawLine) THEN {"sql_hint"} ELSE {}
    IN  /\ pc = "scan"
        /\ l # <<>> /\ ~HasPrefix(l, <<".">>) => Len(pending) < MaxLines
        /\ MainStep
        /\ raw' = rawLine
        /\ line' = l
        /\ hadQuery' = (currentQuery # <<>>)
        /\ IF l = <<>>
           THEN /\ kind' = "blank"
                /\ pc' = "blank_len"
                /\ UNCHANGED <<currentQuery, pending, typed, query, ctx, out, calls, listed, exit>>
           ELSE IF HasPrefix(l, <<".">>)
           THEN /\ kind' = m.label
                /\ out' = out \cup hint \cup m.out
                /\ listed' = m.listed
                /\ ctx' = m.ctx
                /\ currentQuery' = IF m.clear THEN <<>> ELSE currentQuery
                /\ pending' = IF m.clear THEN <<>> ELSE pending
                /\ typed' = IF m.clear THEN <<>> ELSE typed
                /\ IF m.label = "quit"
                   THEN pc' = "done" /\ exit' = "quit" /\ calls' = m.calls /\ UNCHANGED query
                   ELSE IF m.exec # <<>>
                   THEN /\ pc' = "exec"
                        /\ query' = m.exec[1]
                        /\ calls' = m.calls \o <<ApiCall("ExecuteQuery", m.exec[1])>>
                        /\ UNCHANGED exit
                   ELSE pc' = "reset" /\ calls' = m.calls /\ UNCHANGED <<query, exit>>
           ELSE /\ kind' = "text"
                /\ pc' = "app_len"
                /\ out' = out \cup hint
                /\ UNCHANGED <<currentQuery, pending, typed, query, ctx, calls, listed, exit>>
        /\ UNCHANGED <<hpc, intr, ctxAtScan>>
        /\ UNCHANGED outsideShell

(* scanner.Scan() returned false: end of input, or a read error such as a *)
(* line longer than the scanner's buffer; the loop is left by "break"     *)
EndOfInput(why) ==
    /\ pc = "scan"
    /\ MainStep
    /\ pc' = "done"
    /\ exit' = why
    /\ UNCHANGED <<hpc, currentQuery, line, query, ctx, out, calls, listed, kind, raw,
                   pending, typed, intr, hadQuery, ctxAtScan>>
    /\ UNCHANGED outsideShell

(* blank line: if currentQuery.Len() > 0 *)
BlankLen ==
    /\ pc = "blank_len"
    /\ MainStep
    /\ IF Len(currentQuery) > 0
       THEN pc' = "blank_str" /\ TRUE
       ELSE Continue
    /\ UNCHANGED <<hpc, currentQuery, line, query, ctx, out, calls, listed, exit, kind,
                   raw, pending, typed, intr, hadQuery, ctxAtScan>>
    /\ UNCHANGED outsideShell

(* mutant: the statement is sent with the name of the current nameserver *)
CallExecuteQueryInNameserver(q) ==
    /\ query' = q \o ctx.nameserverName
    /\ calls' = calls \o <<ApiCall("ExecuteQuery", q \o ctx.nameserverName)>>
    /\ pc' = "exec"

(* executeQuery is entered: the request goes out *)
CallExecuteQuery(q) ==
    /\ query' = q
    /\ calls' = calls \o <<ApiCall("ExecuteQuery", q)>>
    /\ pc' = "exec"

(* blank line: query := TrimSpace(currentQuery.String()); execute if not "" *)
BlankStr ==
    /\ pc = "blank_str"
    /\ MainStep
    /\ IF TrimSpace(currentQuery) # <<>>
       THEN CallExecuteQuery(TrimSpace(currentQuery))
       ELSE pc' = "reset" /\ UNCHANGED <<query, calls>>
    /\ UNCHANGED <<hpc, currentQuery, line, ctx, out, listed, exit, kind,
                   raw, pending, typed, intr, hadQuery, ctxAtScan>>
    /\ UNCHANGED outsideShell

(* "Add line to current query": if currentQuery.Len() > 0 *)
AppLen ==
    /\ pc = "app_len"
    /\ MainStep
    /\ pc' = IF Len(currentQuery) > 0 THEN "app_sp" ELSE "app_ln"
    /\ UNCHANGED <<hpc, currentQuery, line, query, ctx, out, calls, listed, exit, kind,
                   raw, pending, typed, intr, hadQuery, ctxAtScan>>
    /\ UNCHANGED outsideShell

(* mutant: the separating blank is not written *)
AppSpWritesNothing ==
    /\ pc = "app_sp"
    /\ MainStep
    /\ pc' = "app_ln"
    /\ UNCHANGED <<hpc, currentQuery, line, query, ctx, out, calls, listed, exit, kind,
                   raw, pending, typed, intr, hadQuery, ctxAtScan>>
    /\ UNCHANGED outsideShell

(* currentQuery.WriteString(" ") *)
AppSp ==
    /\ pc = "app_sp"
    /\ MainStep
    /\ currentQuery' = currentQuery \o <<" ">>
    /\ pc' = "app_ln"
    /\ UNCHANGED <<hpc, line, query, ctx, out, calls, listed, exit, kind,
                   raw, pending, typed, intr, hadQuery, ctxAtScan>>
    /\ UNCHANGED outsideShell

(* currentQuery.WriteString(line) *)
AppLn ==
    /\ pc = "app_ln"
    /\ MainStep
    /\ currentQuery' = currentQuery \o line
    /\ pending' = Append(pending, line)
    /\ typed' = Append(typed, raw)
    /\ pc' = "check"
    /\ UNCHANGED <<hpc, line, query, ctx, out, calls, listed, exit, kind,
                   raw, intr, hadQuery, ctxAtScan>>
    /\ UNCHANGED outsideShell

(* "Check for incomplete LIMIT clause" on querySoFar *)
incompleteSoFar(buf, l) ==
    LET querySoFar == TrimSpace(buf \o <<" ">> \o l)
        queryUpper == ToUpper(querySoFar)
    IN  /\ Contains(queryUpper, SpLimit)
        /\ ~Contains(queryUpper, SpLimitSp)
        /\ ~HasSuffix(queryUpper, SpLimit)
        /\ HasSuffix(TrimSpace(queryUpper), Limit)

CheckIncomplete ==
    /\ pc = "check"
    /\ MainStep
    /\ IF incompleteSoFar(currentQuery, line)
       THEN out' = out \cup {"limit_warning"} /\ Continue
       ELSE pc' = "semi" /\ UNCHANGED out
    /\ UNCHANGED <<hpc, currentQuery, line, query, ctx, calls, listed, exit, kind,
                   raw, pending, typed, intr, hadQuery, ctxAtScan>>
    /\ UNCHANGED outsideShell

(* "Remove surrounding quotes if present" *)
stripQuotes(q) ==
    IF Len(q) >= 2 /\ ((q[1] = "\"" /\ q[Len(q)] = "\"") \/ (q[1] = "'" /\ q[Len(q)] = "'"))
    THEN SubSeq(q, 2, Len(q) - 1)
    ELSE q

(* mutant: the trailing semicolon is left on the statement *)
semicolonQueryKeepsSemicolon(buf) == stripQuotes(TrimSpace(buf))

(* the statement a line ending in ";" completes *)
semicolonQuery(buf) == stripQuotes(TrimSpace(TrimSuffix(TrimSpace(buf), <<";">>)))

(* "Validate query completeness before executing" *)
incompleteLimit(q) ==
    LET queryUpperCheck == ToUpper(q)
    IN  /\ Contains(queryUpperCheck, SpLimit)
        /\ ~limitPatternMatch(queryUpperCheck)
        /\ HasSuffix(TrimSpace(queryUpperCheck), Limit)

(* "Check if line ends with semicolon" *)
Semi ==
    /\ pc = "semi"
    /\ MainStep
    /\ IF ~HasSuffix(TrimRightSpace(line), <<";">>)
       THEN Continue /\ UNCHANGED <<query, calls, out>>
       ELSE IF incompleteLimit(semicolonQuery(currentQuery))
       THEN /\ out' = out \cup {"limit_error"}
            /\ pc' = "reset"
            /\ UNCHANGED <<query, calls>>
       ELSE IF semicolonQuery(currentQuery) # <<>>
       THEN CallExecuteQuery(semicolonQuery(currentQuery)) /\ UNCHANGED out
       ELSE pc' = "reset" /\ UNCHANGED <<query, calls, out>>
    /\ UNCHANGED <<hpc, currentQuery, line, ctx, listed, exit, kind,
                   raw, pending, typed, intr, hadQuery, ctxAtScan>>
    /\ UNCHANGED outsideShell

(* mutant: a failed request is sent once more *)
QueryReturnRetries(resp) ==
    /\ pc = "exec"
    /\ MainStep
    /\ out' = out \cup {IF resp = "ok" THEN "result" ELSE "query_error"}
    /\ calls' = IF resp = "ok" THEN calls ELSE calls \o <<ApiCall("ExecuteQuery", query)>>
    /\ pc' = "reset"
    /\ UNCHANGED <<hpc, currentQuery, line, query, ctx, listed, exit, kind,
                   raw, pending, typed, intr, hadQuery, ctxAtScan>>
    /\ UNCHANGED outsideShell

(* client.ExecuteQuery returned and executeQuery printed the outcome *)
QueryReturn(resp) ==
    /\ pc = "exec"
    /\ MainStep
    /\ out' = out \cup {IF resp = "ok" THEN "result" ELSE "query_error"}
    /\ pc' = "reset"
    /\ UNCHANGED <<hpc, currentQuery, line, query, ctx, calls, listed, exit, kind,
                   raw, pending, typed, intr, hadQuery, ctxAtScan>>
    /\ UNCHANGED outsideShell

(* mutant: the branch ends without resetting the buffer *)
ResetForgotten ==
    /\ pc = "reset"
    /\ MainStep
    /\ Continue
    /\ UNCHANGED <<hpc, currentQuery, line, query, ctx, out, calls, listed, exit, kind,
                   raw, pending, typed, intr, hadQuery, ctxAtScan>>
    /\ UNCHANGED outsideShell

(* currentQuery.Reset() followed by continue, at the end of a branch *)
Reset ==
    /\ pc = "reset"
    /\ MainStep
    /\ currentQuery' = <<>>
    /\ pending' = <<>>
    /\ typed' = <<>>
    /\ Continue
    /\ UNCHANGED <<hpc, line, query, ctx, out, calls, listed, exit, kind,
                   raw, intr, hadQuery, ctxAtScan>>
    /\ UNCHANGED outsideShell

(* ------------------------------------------------------------------ *)
(* The Ctrl+C goroutine                                                *)
(* ------------------------------------------------------------------ *)

Running == pc \notin {"done", "crashed"}

(* <-sigChan; if currentQuery.Len() > 0 ... else print the notice *)
SigCheck ==
    /\ Running
    /\ hpc = "wait"
    /\ intr' = TRUE
    /\ IF Len(currentQuery) > 0
       THEN hpc' = "cancel" /\ UNCHANGED sigOut
       ELSE sigOut' = "use_quit" /\ UNCHANGED hpc
    /\ UNCHANGED <<pc, currentQuery, line, query, ctx, out, calls, listed, exit, kind,
                   raw, pending, typed, hadQuery, ctxAtScan>>
    /\ UNCHANGED outsideShell

(* mutant: cancelling the query also gives up the outstanding request *)
SigCancelAbortsRequest ==
    /\ Running
    /\ hpc = "cancel"
    /\ currentQuery' = <<>>
    /\ pending' = <<>>
    /\ typed' = <<>>
    /\ sigOut' = "cancelled"
    /\ hpc' = "wait"
    /\ intr' = TRUE
    /\ pc' = IF pc = "exec" THEN "reset" ELSE pc
    /\ UNCHANGED <<line, query, ctx, out, calls, listed, exit, kind,
                   raw, hadQuery, ctxAtScan>>
    /\ UNCHANGED outsideShell

(* currentQuery.Reset(); print "Query cancelled." *)
SigCancel ==
    /\ Running
    /\ hpc = "cancel"
    /\ currentQuery' = <<>>
    /\ pending' = <<>>
    /\ typed' = <<>>
    /\ sigOut' = "cancelled"
    /\ hpc' = "wait"
    /\ intr' = TRUE
    /\ UNCHANGED <<pc, line, query, ctx, out, calls, listed, exit, kind,
                   raw, hadQuery, ctxAtScan>>
    /\ UNCHANGED outsideShell

(* The goroutine and the read loop share currentQuery without any        *)
(* synchronisation.  When the goroutine's Reset overlaps a WriteString   *)
(* of the read loop, the append can store the slice it loaded before the *)
(* Reset: the Reset is lost although "Query cancelled." is printed.      *)
RaceLostReset ==
    /\ hpc = "cancel"
    /\ pc \in {"app_sp", "app_ln"}
    /\ currentQuery # <<>>
    /\ currentQuery' = currentQuery \o (IF pc = "app_sp" THEN <<" ">> ELSE line)
    /\ pending' = IF pc = "app_ln" THEN Append(pending, line) ELSE pending
    /\ typed' = IF pc = "app_ln" THEN Append(typed, raw) ELSE typed
    /\ pc' = IF pc = "app_sp" THEN "app_ln" ELSE "check"
    /\ sigOut' = "cancelled"
    /\ hpc' = "wait"
    /\ intr' = TRUE
    /\ UNCHANGED <<line, query, ctx, out, calls, listed, exit, kind,
                   raw, hadQuery, ctxAtScan>>
    /\ UNCHANGED outsideShell

(* the read loop reads or writes the bytes of the buffer *)
touchesBytes ==
    \/ pc \in {"app_sp", "app_ln", "check", "blank_str"}
    \/ pc = "semi" /\ HasSuffix(TrimRightSpace(line), <<";">>)

(* The slice header of the buffer is three words.  When the goroutine's  *)
(* Reset overlaps an access of the read loop, the loop can see or leave  *)
(* a nil data pointer with a non-zero length, and the next use of the    *)
(* text faults: the process dies.                                        *)
RaceCrash ==
    /\ hpc = "cancel"
    /\ touchesBytes
    /\ currentQuery # <<>>
    /\ pc' = "crashed"
    /\ exit' = "crash"
    /\ sigOut' = "cancelled"
    /\ intr' = TRUE
    /\ UNCHANGED <<hpc, currentQuery, line, query, ctx, out, calls, listed, kind,
                   raw, pending, typed, hadQuery, ctxAtScan>>
    /\ UNCHANGED outsideShell

Next ==
    \/ Prompt
    \/ \E rawLine \in InputLines : \E api \in ApiFor(rawLine, ctx) : Scan(rawLine, api)
    \/ \E why \in {"eof", "read_error"} : EndOfInput(why)
    \/ BlankLen
    \/ BlankStr
    \/ AppLen
    \/ AppSp
    \/ AppLn
    \/ CheckIncomplete
    \/ Semi
    \/ \E resp \in QueryOutcomes : QueryReturn(resp)
    \/ Reset
    \/ SigCheck
    \/ SigCancel
    \/ RaceLostReset
    \/ RaceCrash

Spec == Init /\ [][Next]_vars

(* ------------------------------------------------------------------ *)
(* Properties of the interactive shell                                 *)
(* ------------------------------------------------------------------ *)

IsMeta == kind \notin {"none", "blank", "text"}

DotLine(rawLine) == HasPrefix(stripSqlPrefix(rawLine), <<".">>)

SemiLine == kind = "text" /\ HasSuffix(line, <<";">>)

Execute(q) == ApiCall("ExecuteQuery", q)

Wrapped(q) == Len(q) >= 2 /\ q[1] = q[Len(q)] /\ q[1] \in {"'", "\""}

(* C1: the pending buffer never holds a line that, trimmed and without  *)
(* its "sql " prefix, began with ".": the buffer is exactly the lines   *)
(* accumulated, none of them a dot line; a dot line is dispatched as a  *)
(* meta-command, and once it is processed the buffer is empty.          *)
C1_DotLineNeverBuffered ==
    /\ \A i \in 1..Len(typed) : ~DotLine(typed[i]) /\ pending[i] = stripSqlPrefix(typed[i])
    /\ Len(pending) = Len(typed)
    /\ TrimSpace(currentQuery) = Join(pending, <<" ">>)
    /\ (kind # "none" /\ DotLine(raw)) => IsMeta
    /\ (Completed /\ IsMeta) => currentQuery = <<>>

(* a dot line was read while the buffer held text, and has been processed *)
C1_Witness == Completed /\ IsMeta /\ DotLine(raw) /\ hadQuery /\ ~intr /\ currentQuery = <<>>

(* C2: the read loop ends only by reading .quit, .exit or .q *)
C2_OnlyQuitEnds == pc \in {"done", "crashed"} => exit = "quit"

(* C3: after the Ctrl+C goroutine has printed its notice the shell is   *)
(* still running and the pending buffer is empty.                       *)
C3_InterruptLeavesEmptyBuffer == sigOut # "none" => (Running /\ currentQuery = <<>>)

(* C4, as amended: lines that, trimmed and without their "sql " prefix, *)
(* are non-empty text lines, accumulated since the buffer was last      *)
(* emptied and followed by a blank line with no interrupt handled       *)
(* meanwhile, are sent as exactly one query, the normalised lines       *)
(* joined by single blanks, and the buffer is empty afterwards.         *)
C4_BlankLineSendsJoinedLines ==
    /\ (pc = "exec" /\ kind = "blank" /\ ~intr) =>
           /\ pending # <<>>
           /\ query = Join(pending, <<" ">>)
           /\ calls = <<Execute(query)>>
    /\ (Completed /\ kind = "blank" /\ hadQuery /\ ~intr) =>
           /\ calls = <<Execute(query)>>
           /\ currentQuery = <<>>

(* "sql a" and " b " followed by a blank line were sent as "a b" *)
C4_Witness ==
    /\ Completed /\ kind = "blank" /\ hadQuery /\ ~intr
    /\ calls = <<Execute(<<"a", " ", "b">>)>>
    /\ currentQuery = <<>>

(* C4 as stated: the query is the typed lines joined by single blanks *)
C4_SendsTypedLines ==
    (pc = "exec" /\ kind = "blank" /\ ~intr) =>
        query = Join([i \in 1..Len(typed) |-> TrimSpace(typed[i])], <<" ">>)

(* C5, as amended: when a text line ending in ";" is read and no        *)
(* interrupt is handled meanwhile, the lines accumulated since the      *)
(* buffer was last emptied are joined by single blanks, one trailing    *)
(* semicolon and then one pair of wrapping quotes are removed; the      *)
(* result is sent as one query unless it is empty or rejected as an     *)
(* incomplete LIMIT; in every case the buffer is empty afterwards.      *)
C5_SemicolonCompletes ==
    LET stmt == stripQuotes(TrimSpace(TrimSuffix(Join(pending, <<" ">>), <<";">>)))
    IN  /\ (pc = "exec" /\ SemiLine /\ ~intr) =>
               /\ stmt # <<>>
               /\ query = stmt
               /\ calls = <<Execute(stmt)>>
        /\ (pc = "reset" /\ SemiLine /\ ~intr) =>
               IF "limit_error" \in out \/ stmt = <<>>
               THEN calls = <<>>
               ELSE calls = <<Execute(stmt)>>
        /\ (Completed /\ SemiLine) => currentQuery = <<>>

(* " b " and "a;" were sent as the one statement "b a" *)
C5_Witness ==
    /\ Completed /\ SemiLine /\ hadQuery /\ ~intr
    /\ calls = <<Execute(<<"b", " ", "a">>)>>
    /\ currentQuery = <<>>

(* C5 as stated: the accumulated lines, space-joined and without the    *)
(* trailing semicolon, are dispatched as one statement                  *)
C5_DispatchesJoinedLines ==
    LET joined == TrimSuffix(Join(pending, <<" ">>), <<";">>)
    IN  (pc = "reset" /\ SemiLine /\ ~intr /\ joined # <<>>) => calls = <<Execute(joined)>>

(* C6: no statement ending in the keyword LIMIT is sent to the API,     *)
(* whether a semicolon or a blank line completed it                     *)
C6_NoDanglingLimitSent ==
    kind \in {"blank", "text"} =>
        \A i \in 1..Len(calls) :
            calls[i].op = "ExecuteQuery" => ~HasSuffix(ToUpper(TrimSpace(calls[i].arg)), SpLimit)

(* C7: a statement entered in one pair of matching quotes is sent       *)
(* without them, whether a semicolon or a blank line completed it       *)
C7_QuotesStripped ==
    LET entered == TrimSpace(TrimSuffix(Join(pending, <<" ">>), <<";">>))
    IN  (pc = "exec" /\ kind \in {"blank", "text"} /\ ~intr /\ Wrapped(entered)) =>
            query = SubSeq(entered, 2, Len(entered) - 1)

(* C8, as amended: an unknown dot-command prints the unknown-command    *)
(* message, makes no API call, leaves the shell context as it was and   *)
(* empties the pending buffer.                                          *)
C8_UnknownCommand ==
    (kind = "unknown" /\ pc \in {"reset", "prompt"}) =>
        /\ "unknown" \in out
        /\ calls = <<>>
        /\ ctx = ctxAtScan
        /\ (Completed => currentQuery = <<>>)

(* an unknown dot-command was read while the buffer held text *)
C8_Witness == Completed /\ kind = "unknown" /\ hadQuery /\ ~intr /\ "unknown" \in out

(* C8 as stated: the unknown dot-command leaves the buffer as it was *)
C8_BufferUntouched ==
    (Completed /\ kind = "unknown" /\ hadQuery /\ ~intr) => currentQuery # <<>>

(* the user answered yes to a confirmation prompt of the meta-command;  *)
(* the loop body reads no answer, so it never prints this               *)
Confirmed == "confirmed" \in out

(* C9: .drop_table sends DROP TABLE only after the user has confirmed *)
C9_DropNeedsConfirmation ==
    kind = "drop_table" =>
        \A i \in 1..Len(calls) : calls[i].op = "ExecuteQuery" => Confirmed

(* C10: .use x selects the listed nameserver whose name or ID is x as   *)
(* typed; with no such nameserver, or a failed listing, the context is  *)
(* unchanged                                                            *)
C10_UseSelectsTypedName ==
    LET parts == Fields(stripSqlPrefix(raw))
        found == findDatabase(listed.dbs, parts[2])
    IN  (Completed /\ kind = "use" /\ Len(parts) > 1) =>
            IF listed.ok /\ found # 0
            THEN /\ ctx.nameserverID = listed.dbs[found].ID
                 /\ ctx.nameserverName = listed.dbs[found].DatabaseName
            ELSE ctx = ctxAtScan


(* the ExecuteQuery requests made for the line *)
ExecuteQueryCalls == SelectSeq(calls, LAMBDA c : c.op = "ExecuteQuery")

(* a statement was handed to executeQuery for the line *)
Dispatched == query # <<>>

(* C12: a dispatched statement causes exactly one ExecuteQuery request,    *)
(* also when the request fails (no retry); no request is made without a   *)
(* dispatched statement; after a failed query the shell has not ended, and *)
(* when it is back at the prompt the pending buffer is empty.              *)
C12_OneRequestNoRetry ==
    /\ Dispatched => ExecuteQueryCalls = <<ApiCall("ExecuteQuery", query)>>
    /\ ~Dispatched => ExecuteQueryCalls = <<>>
    /\ "query_error" \in out => pc \in {"reset", "prompt"} /\ exit = "none"
    /\ Completed /\ "query_error" \in out => currentQuery = <<>> /\ pending = <<>>

C12_Witness == Completed /\ Dispatched /\ "query_error" \in out /\ hadQuery

(* ------------------------------------------------------------------ *)
(* Further properties of the shell                                     *)
(* ------------------------------------------------------------------ *)

(* what follows the four characters of the prefix in a typed line *)
StatementOf(rawLine) ==
    TrimSpace(SubSeq(TrimSpace(rawLine), 5, Len(TrimSpace(rawLine))))

(* C23: when a text line that begins with "sql " in any letter case is     *)
(* read, the hint is printed for it; and when the statement typed on such  *)
(* a line, with or without quotes around it, is dispatched (by a blank     *)
(* line or by its own semicolon, no interrupt handled meanwhile), the      *)
(* one query sent is part of what followed the prefix and does not begin   *)
(* with the prefix.                                                        *)
C23_SqlPrefixStripped ==
    /\ (kind = "text" /\ hasSqlPrefix(raw)) => "sql_hint" \in out
    /\ (pc = "exec" /\ kind \in {"blank", "text"} /\ ~intr
          /\ Len(typed) = 1 /\ hasSqlPrefix(typed[1])) =>
           /\ Contains(StatementOf(typed[1]), query)
           /\ ~HasPrefix(ToLower(query), SqlPrefix)
           /\ calls = <<Execute(query)>>

(* "Sql 'a';" was typed and "a" is being sent *)
C23_Witness ==
    /\ pc = "exec" /\ kind = "text" /\ ~intr
    /\ typed = << <<"S", "q", "l", " ", "'", "a", "'", ";">> >>
    /\ query = <<"a">>
    /\ "sql_hint" \in out

(* C24: a completion trigger, that is a blank line or the line ";", read   *)
(* while the pending buffer is empty (as it is right after .clear) makes   *)
(* no API call, and the buffer is empty once the line has been processed.  *)
C24_TriggerOnEmptyBuffer ==
    (~hadQuery /\ (kind = "blank" \/ (kind = "text" /\ line = <<";">>))) =>
        /\ calls = <<>>
        /\ pc # "exec"
        /\ Completed => currentQuery = <<>>

(* the line ";" was read with an empty buffer and has been processed *)
C24_Witness ==
    /\ Completed /\ ~hadQuery /\ kind = "text" /\ line = <<";">>
    /\ calls = <<>> /\ currentQuery = <<>>

(* C26: while a query request is outstanding it can return with either     *)
(* outcome, whatever interrupts are handled meanwhile; a step taken while  *)
(* it is outstanding (only the Ctrl+C goroutine takes any) leaves the      *)
(* request, the requests made, the context and the output of the read loop *)
(* as they are, so that it changes the pending buffer at most; and the     *)
(* wait ends only by the request returning, with its result or its error   *)
(* printed.                                                                *)
C26_InterruptLeavesRequest ==
    /\ [](pc = "exec" => \A resp \in QueryOutcomes : ENABLED QueryReturn(resp))
    /\ [][pc = "exec" /\ pc' = "exec" =>
             UNCHANGED <<query, calls, ctx, out, exit, listed, line, kind>>]_shellVars
    /\ [][pc = "exec" /\ pc' # "exec" =>
             /\ pc' = "reset"
             /\ UNCHANGED <<query, calls, ctx, exit>>
             /\ out' \in {out \cup {"result"}, out \cup {"query_error"}}]_shellVars

(* the goroutine has emptied the buffer while the request is outstanding *)
C26_Witness ==
    /\ pc = "exec" /\ kind \in {"blank", "text"}
    /\ sigOut = "cancelled"
    /\ currentQuery = <<>>
    /\ calls = <<Execute(query)>>

(* the statement a line ending in ";" completes, and its final token *)
Statement == TrimSpace(TrimSuffix(Join(pending, <<" ">>), <<";">>))

FinalToken == Fields(Statement)[Len(Fields(Statement))]

(* C27: when a line ending in ";" has been handled (no interrupt           *)
(* meanwhile), the incomplete-LIMIT error is printed only for a statement  *)
(* whose final token is the keyword LIMIT, and every other statement that  *)
(* is not empty, one ending in "limit 1" or in an identifier that ends     *)
(* with the letters "limit" included, has been sent to the API as typed    *)
(* (less one pair of wrapping quotes).                                     *)
C27_OnlyDanglingLimitRejected ==
    (pc \in {"exec", "reset"} /\ SemiLine /\ ~intr /\ Statement # <<>>) =>
        /\ "limit_error" \in out => ToUpper(FinalToken) = Limit
        /\ ToUpper(FinalToken) # Limit => calls = <<Execute(stripQuotes(Statement))>>

(* the create-nameserver requests made for the line *)
CreateCalls == { i \in 1..Len(calls) : calls[i].op = "CreateNameserver" }

QueryRequest ==
    [projectID |-> ctx.projectID, serverID |-> ctx.serverID, query |-> query, args |-> <<>>]

(* C30: the request sent for a statement is determined by the lines of the *)
(* statement and the project and server the shell was started for: it is   *)
(* the same whatever nameserver the context names and whatever .use lines  *)
(* came before, so two sessions that differ in these only send the same    *)
(* request for the same statement.                                         *)
C30_RequestIgnoresNameserver ==
    (pc = "exec" /\ kind \in {"blank", "text"} /\ ~intr) =>
        QueryRequest =
            [projectID |-> "p1", serverID |-> "s1",
             query |-> IF kind = "blank" THEN Join(pending, <<" ">>)
                       ELSE semicolonQuery(Join(pending, <<" ">>)),
             args |-> <<>>]

(* a statement is being sent after .use has switched to nameserver "n" *)
C30_Witness ==
    /\ pc = "exec" /\ kind = "text" /\ ~intr
    /\ ctx.nameserverID = <<"2">>
    /\ query = <<"a">>

(* ================================================================== *)
(* executeQuery: the reply of the query endpoint, decoded and printed  *)
(* ================================================================== *)

(* an optional JSON field: absent, or present with a value *)
None == <<>>

Some(x) == <<x>>

(* JSON values of a cell or of a column entry *)
JNull == [t |-> "null", s |-> "", n |-> 0]

JString(str) == [t |-> "string", s |-> str, n |-> 0]

JNumber(num) == [t |-> "number", s |-> "", n |-> num]

(* an entry of "rows": an array of cells, or some other JSON value *)
JRow(cells) == [array |-> TRUE, cells |-> cells]

MsgBoom == <<"b", "o", "o", "m">>

ColumnLists ==
    { <<>>, <<JString("id")>>, <<JString("id"), JString("n")>>, <<JString("id"), JNumber(7)>> }

RowLists ==
    { <<>>,
      <<JRow(<<JString("1")>>)>>,
      <<JRow(<<JString("1")>>), JRow(<<JString("2")>>)>>,
      <<JRow(<<JNull, JNumber(12)>>), [array |-> FALSE, cells |-> <<>>]>> }

(* the JSON object of a 200 reply, after the "result" envelope is opened *)
ResponseData ==
    [ columns       : {None} \cup { Some(c) : c \in ColumnLists },
      rows          : {None} \cup { Some(r) : r \in RowLists },
      rowsAffected  : {None, Some(3)},
      executionTime : {Some(5)},
      success       : {None, Some(TRUE), Some(FALSE)},
      errorMessage  : {None, Some(<<>>), Some(MsgBoom)} ]

NoData ==
    [ columns |-> None, rows |-> None, rowsAffected |-> None, executionTime |-> None,
      success |-> None, errorMessage |-> None ]

(* what the request can come back with: a 200 reply, a non-200 reply that *)
(* parses as an APIError, or any other failure                            *)
Replies ==
    { [status |-> "ok", data |-> d, msg |-> <<>>] : d \in ResponseData }
      \cup { [status |-> s, data |-> NoData, msg |-> MsgBoom] : s \in {"api_error", "error"} }

(* "Extract columns": an entry that is no string leaves "" *)
extractColumns(d) ==
    IF d.columns = None THEN <<>>
    ELSE [i \in 1..Len(d.columns[1]) |->
             IF d.columns[1][i].t = "string" THEN d.columns[1][i].s ELSE ""]

(* "Extract rows": an entry that is no array leaves a nil row *)
extractRows(d) ==
    IF d.rows = None THEN <<>>
    ELSE [i \in 1..Len(d.rows[1]) |->
             IF d.rows[1][i].array THEN d.rows[1][i].cells ELSE <<>>]

(* mutant: no error is read out of the reply *)
toQueryResponseIgnoresError(d) ==
    [ Columns |-> extractColumns(d), Rows |-> extractRows(d),
      RowsAffected |-> IF d.rowsAffected = None THEN 0 ELSE d.rowsAffected[1],
      ExecutionTime |-> IF d.executionTime = None THEN 0 ELSE d.executionTime[1],
      Success |-> TRUE, ErrorMessage |-> <<>> ]

(* "Convert to QueryResponse" *)
toQueryResponse(d) ==
    LET cols == extractColumns(d)
        rows == extractRows(d)
        byDefault == TRUE
        byFlag == IF d.success = None THEN byDefault ELSE d.success[1]
        byMessage == IF d.errorMessage = None THEN byFlag ELSE FALSE
        byEmptiness == IF Len(cols) = 0 /\ Len(rows) = 0 THEN TRUE ELSE byMessage
    IN  [ Columns |-> cols, Rows |-> rows,
          RowsAffected |-> IF d.rowsAffected = None THEN 0 ELSE d.rowsAffected[1],
          ExecutionTime |-> IF d.executionTime = None THEN 0 ELSE d.executionTime[1],
          Success |-> byEmptiness,
          ErrorMessage |-> IF d.errorMessage = None THEN <<>> ELSE d.errorMessage[1] ]

(* what client.ExecuteQuery hands back: a response, or an error *)
Returned(r) ==
    IF r.status = "ok"
    THEN [err |-> "nil", msg |-> <<>>, resp |-> toQueryResponse(r.data)]
    ELSE [err |-> IF r.status = "api_error" THEN "APIError" ELSE "error",
          msg |-> r.msg, resp |-> toQueryResponse(NoData)]

(* a printed line: its kind, the cells of a table line, the text of a     *)
(* message, the count and the milliseconds it shows                       *)
OutLine(k, cells, msg, n, ms) == [k |-> k, cells |-> cells, msg |-> msg, n |-> n, ms |-> ms]

Note(k) == OutLine(k, <<>>, <<>>, 0, 0)

(* json.Marshal of a number *)
RECURSIVE Decimal(_)
Decimal(num) ==
    LET digits == <<"0", "1", "2", "3", "4", "5", "6", "7", "8", "9">>
    IN  IF num < 10 THEN digits[num + 1]
        ELSE Decimal(num \div 10) \o digits[(num % 10) + 1]

(* the text of one cell *)
rowStr(val) ==
    IF val.t = "null" THEN "NULL"
    ELSE IF val.t = "string" THEN val.s
    ELSE Decimal(val.n)

(* mutant: the table is printed without its separator line *)
displayTableNoSeparator(resp) ==
    <<OutLine("header", resp.Columns, <<>>, 0, 0)>>
      \o [i \in 1..Len(resp.Rows) |->
             OutLine("row", [j \in 1..Len(resp.Rows[i]) |-> rowStr(resp.Rows[i][j])], <<>>, 0, 0)]
      \o <<OutLine("rows_returned", <<>>, <<>>, Len(resp.Rows), resp.ExecutionTime)>>

(* "SELECT query - display results in table", for one or more rows *)
displayTable(resp) ==
    <<OutLine("header", resp.Columns, <<>>, 0, 0),
      OutLine("separator", [i \in 1..Len(resp.Columns) |-> "--"], <<>>, 0, 0)>>
      \o [i \in 1..Len(resp.Rows) |->
             OutLine("row", [j \in 1..Len(resp.Rows[i]) |-> rowStr(resp.Rows[i][j])], <<>>, 0, 0)]
      \o <<OutLine("rows_returned", <<>>, <<>>, Len(resp.Rows), resp.ExecutionTime)>>

(* mutant: the count of a mutation is not read from the response *)
executeQueryOutputDropsCount(ret) ==
    LET resp == ret.resp
    IN  IF ret.err # "nil"
        THEN <<OutLine("error", <<>>, ret.msg, 0, 0)>>
        ELSE IF ~resp.Success /\ resp.ErrorMessage # <<>>
        THEN <<OutLine("error", <<>>, resp.ErrorMessage, 0, 0)>>
        ELSE IF Len(resp.Columns) > 0
        THEN IF Len(resp.Rows) = 0
             THEN <<Note("no_rows_returned")>>
             ELSE displayTable(resp)
        ELSE <<OutLine("executed_successfully", <<>>, <<>>, 0, resp.ExecutionTime),
               OutLine("rows_affected", <<>>, <<>>, 0, 0)>>

(* everything executeQuery prints for what client.ExecuteQuery returned *)
(* (the hint lines that can follow the message of an APIError are left    *)
(* out: they depend on the wording of the message only)                   *)
executeQueryOutput(ret) ==
    LET resp == ret.resp
    IN  IF ret.err # "nil"
        THEN <<OutLine("error", <<>>, ret.msg, 0, 0)>>
        ELSE IF ~resp.Success /\ resp.ErrorMessage # <<>>
        THEN <<OutLine("error", <<>>, resp.ErrorMessage, 0, 0)>>
        ELSE IF ~resp.Success /\ resp.ErrorMessage = <<>>
                /\ Len(resp.Columns) = 0 /\ Len(resp.Rows) = 0
        THEN <<Note("no_results")>>
        ELSE IF Len(resp.Columns) > 0
        THEN IF Len(resp.Rows) = 0
             THEN <<Note("no_rows_returned")>>
             ELSE displayTable(resp)
        ELSE <<OutLine("executed_successfully", <<>>, <<>>, 0, resp.ExecutionTime),
               OutLine("rows_affected", <<>>, <<>>, resp.RowsAffected, 0)>>

(* the shell is not running while one executeQuery call is followed *)
ShellOff ==
    /\ pc = "off"
    /\ hpc = "off"
    /\ currentQuery = <<>>
    /\ line = <<>>
    /\ query = <<>>
    /\ ctx = <<>>
    /\ out = {}
    /\ calls = <<>>
    /\ listed = NotListed
    /\ sigOut = "none"
    /\ exit = "none"
    /\ kind = "none"
    /\ raw = <<>>
    /\ pending = <<>>
    /\ typed = <<>>
    /\ intr = FALSE
    /\ hadQuery = FALSE
    /\ ctxAtScan = <<>>

(* the request has been answered *)
InitQuery ==
    /\ qpc = "call"
    /\ reply \in Replies
    /\ queryResponse = <<>>
    /\ printed = <<>>
    /\ ShellOff
    /\ PollOff
    /\ ServersOff
    /\ CliOff

(* client.ExecuteQuery returns *)
ExecuteQuery ==
    /\ qpc = "call"
    /\ queryResponse' = Returned(reply)
    /\ qpc' = "returned"
    /\ UNCHANGED <<reply, printed>>
    /\ UNCHANGED <<shellVars, pollVars, serverVars, cliVars>>

(* executeQuery prints the outcome and returns *)
executeQuery ==
    /\ qpc = "returned"
    /\ printed' = executeQueryOutput(queryResponse)
    /\ qpc' = "done"
    /\ UNCHANGED <<reply, queryResponse>>
    /\ UNCHANGED <<shellVars, pollVars, serverVars, cliVars>>

NextQuery ==
    \/ ExecuteQuery
    \/ executeQuery

SpecQuery == InitQuery /\ [][NextQuery]_vars


(* ------------------------------------------------------------------ *)
(* Properties of executeQuery                                          *)
(* ------------------------------------------------------------------ *)

(* the reply says the query failed *)
CarriesError(d) ==
    \/ d.errorMessage # None /\ d.errorMessage[1] # <<>>
    \/ d.success = Some(FALSE)

Kinds(lines) == { lines[i].k : i \in 1..Len(lines) }

(* C11: a 200 reply that carries an error (a non-empty errorMessage, or     *)
(* success = false) is printed as an error and never as "Query executed    *)
(* successfully"; for a reply without errorMessage, the Success the shell  *)
(* acts on is the success field of the reply, and true only by default     *)
(* when the field is absent.                                               *)
C11_ErrorReplyPrintedAsError ==
    /\ qpc \in {"returned", "done"} /\ reply.status = "ok" /\ reply.data.errorMessage = None =>
          /\ queryResponse.resp.Success =
                (IF reply.data.success = None THEN TRUE ELSE reply.data.success[1])
          /\ queryResponse.resp.ErrorMessage = <<>>
    /\ qpc = "done" /\ reply.status = "ok" /\ CarriesError(reply.data) =>
          /\ "error" \in Kinds(printed)
          /\ "executed_successfully" \notin Kinds(printed)

(* the cells a result row is to be shown with *)
CellShown(shown, val) ==
    /\ val.t = "null" => shown = "NULL"
    /\ val.t = "string" => shown = val.s

(* the table of a reply: header, separator, one line per row, summary *)
TablePrinted(d) ==
    LET cols == d.columns[1]
        rows == d.rows[1]
    IN  /\ Len(printed) = Len(rows) + 3
        /\ printed[1].k = "header"
        /\ Len(printed[1].cells) = Len(cols)
        /\ \A i \in 1..Len(cols) : cols[i].t = "string" => printed[1].cells[i] = cols[i].s
        /\ printed[2].k = "separator"
        /\ \A i \in 1..Len(rows) :
              /\ printed[i + 2].k = "row"
              /\ rows[i].array =>
                    /\ Len(printed[i + 2].cells) = Len(rows[i].cells)
                    /\ \A j \in 1..Len(rows[i].cells) :
                          CellShown(printed[i + 2].cells[j], rows[i].cells[j])
        /\ printed[Len(rows) + 3].k = "rows_returned"
        /\ printed[Len(rows) + 3].n = Len(rows)

(* a successful result with declared columns and at least minRows rows *)
SuccessfulResult(minRows) ==
    /\ qpc = "done"
    /\ reply.status = "ok"
    /\ ~CarriesError(reply.data)
    /\ reply.data.columns # None
    /\ Len(reply.data.columns[1]) > 0
    /\ reply.data.rows # None => Len(reply.data.rows[1]) >= minRows
    /\ reply.data.rows = None => minRows = 0

RowsOf(d) == IF d.rows = None THEN <<>> ELSE d.rows[1]

(* C13, as amended: a successful result with declared columns and one or   *)
(* more rows is printed as a header line of the column names, a separator  *)
(* line, one line per row (null shown as NULL, a string as it is) and the  *)
(* summary with the number of rows; with no rows, only the notice that no  *)
(* rows were returned is printed.                                          *)
C13_TableForRows ==
    /\ SuccessfulResult(1) => TablePrinted(reply.data)
    /\ SuccessfulResult(0) /\ Len(RowsOf(reply.data)) = 0 =>
          printed = <<Note("no_rows_returned")>>

C13_Witness ==
    /\ SuccessfulResult(1)
    /\ Len(reply.data.rows[1]) = 2
    /\ \E i \in 1..2 : \E j \in 1..Len(reply.data.rows[1][i].cells) :
          reply.data.rows[1][i].cells[j].t = "null"

(* C13, as claimed: the table and the summary are printed for any number *)
(* of rows, zero included.                                               *)
C13_TableForAnyRows ==
    SuccessfulResult(0) =>
        TablePrinted([reply.data EXCEPT !.rows = Some(RowsOf(reply.data))])


(* a 200 reply that declares no column *)
ZeroColumns ==
    /\ qpc = "done"
    /\ reply.status = "ok"
    /\ reply.data.columns # None => Len(reply.data.columns[1]) = 0

(* the two lines of a mutation report, with the time and the count given *)
MutationReport(ms, n) ==
    <<OutLine("executed_successfully", <<>>, <<>>, 0, ms),
      OutLine("rows_affected", <<>>, <<>>, n, 0)>>

(* C25, as amended: for a reply that declares zero columns no table line   *)
(* is printed; if the reply carries no error (no errorMessage, success not *)
(* false) the two lines of a mutation report are printed, with the         *)
(* executionTime and the rowsAffected of the reply (0 where the reply has  *)
(* none).                                                                  *)
C25_MutationReport ==
    ZeroColumns =>
        /\ Kinds(printed) \cap {"header", "separator", "row", "rows_returned"} = {}
        /\ ~CarriesError(reply.data) /\ reply.data.errorMessage = None =>
              printed = MutationReport(
                           IF reply.data.executionTime = None THEN 0
                           ELSE reply.data.executionTime[1],
                           IF reply.data.rowsAffected = None THEN 0
                           ELSE reply.data.rowsAffected[1])

(* {columns: [], rows: [], rowsAffected: 3} was reported as 3 rows affected *)
C25_Witness ==
    /\ ZeroColumns
    /\ reply.data.columns = Some(<<>>)
    /\ reply.data.rows = Some(<<>>)
    /\ reply.data.rowsAffected = Some(3)
    /\ ~CarriesError(reply.data)
    /\ printed[2] = OutLine("rows_affected", <<>>, <<>>, 3, 0)

(* C25, as claimed: every reply that declares zero columns is reported as *)
(* a mutation.                                                            *)
C25_EveryZeroColumnReply ==
    ZeroColumns => Kinds(printed) = {"executed_successfully", "rows_affected"}

(* ================================================================== *)
(* pollForToken: the polling loop of the device-code login             *)
(* ================================================================== *)

maxPolls == 120

(* what client.GetToken can return: a token with a nil error, an APIError *)
(* with its code, or another error                                        *)
GetTokenResults ==
    { [ok |-> TRUE, api |-> FALSE, code |-> "", token |-> tok] : tok \in {"tokenA", "tokenB"} }
      \cup { [ok |-> FALSE, api |-> TRUE, code |-> c, token |-> ""] :
                c \in {"authorization_pending", "access_denied", "Invalid device code",
                       "invalid_device_code", "Device code expired", "device_code_expired",
                       "api_error"} }
      \cup { [ok |-> FALSE, api |-> FALSE, code |-> "", token |-> ""] }

(* mutant: the loop admits one attempt more *)
mayPollOnceMore == pollCount <= maxPolls

(* "for pollCount < maxPolls" *)
mayPoll == pollCount < maxPolls

(* mutant: an invalid device code is tolerated on the first four attempts *)
toleratedFour(count) == count <= 4

(* "Retry a few times in case of timing issues" *)
tolerated(count) == count <= 3

Return(err, token) == [err |-> err, token |-> token]

(* mutant: a denied authorization is polled again like a pending one *)
onGetTokenDeniedIsPending(r, count) ==
    IF r.ok THEN Return("nil", r.token)
    ELSE IF r.api /\ r.code \in {"authorization_pending", "access_denied"} THEN Return("continue", "")
    ELSE IF r.api /\ r.code \in {"Invalid device code", "invalid_device_code"}
         THEN IF tolerated(count) THEN Return("continue", "") ELSE Return("device code not found", "")
    ELSE IF r.api /\ r.code \in {"Device code expired", "device_code_expired"}
         THEN Return("device code expired", "")
    ELSE Return("continue", "")

(* mutant: an error that is none of the known codes ends the polling *)
onGetTokenGivesUp(r, count) ==
    IF r.ok THEN Return("nil", r.token)
    ELSE IF r.api /\ r.code = "authorization_pending" THEN Return("continue", "")
    ELSE IF r.api /\ r.code = "access_denied" THEN Return("authorization was denied", "")
    ELSE IF r.api /\ r.code \in {"Invalid device code", "invalid_device_code"}
         THEN IF tolerated(count) THEN Return("continue", "") ELSE Return("device code not found", "")
    ELSE IF r.api /\ r.code \in {"Device code expired", "device_code_expired"}
         THEN Return("device code expired", "")
    ELSE Return("failed", "")

(* what the loop body does with the result of client.GetToken: return a *)
(* token, return an error, or go round the loop again                   *)
onGetToken(r, count) ==
    IF r.ok THEN Return("nil", r.token)
    ELSE IF r.api /\ r.code = "authorization_pending" THEN Return("continue", "")
    ELSE IF r.api /\ r.code = "access_denied" THEN Return("authorization was denied", "")
    ELSE IF r.api /\ r.code \in {"Invalid device code", "invalid_device_code"}
         THEN IF tolerated(count) THEN Return("continue", "") ELSE Return("device code not found", "")
    ELSE IF r.api /\ r.code \in {"Device code expired", "device_code_expired"}
         THEN Return("device code expired", "")
    ELSE Return("continue", "")

InitPoll ==
    /\ ppc = "loop"
    /\ pollCount = 0
    /\ getTokenCalls = 0
    /\ last = <<>>
    /\ polled = <<>>
    /\ ShellOff
    /\ QueryOff
    /\ ServersOff
    /\ CliOff

(* the loop condition holds: sleep (except the first time), count the attempt *)
NextAttempt ==
    /\ ppc = "loop"
    /\ mayPoll
    /\ pollCount' = pollCount + 1
    /\ ppc' = "get_token"
    /\ UNCHANGED <<getTokenCalls, last, polled>>
    /\ UNCHANGED <<shellVars, queryVars, serverVars, cliVars>>

(* client.GetToken(deviceCode) is called and returns r *)
GetToken(r) ==
    /\ ppc = "get_token"
    /\ getTokenCalls' = getTokenCalls + 1
    /\ last' = <<r>>
    /\ IF onGetToken(r, pollCount).err = "continue"
       THEN ppc' = "loop" /\ UNCHANGED polled
       ELSE ppc' = "done" /\ polled' = <<onGetToken(r, pollCount)>>
    /\ UNCHANGED pollCount
    /\ UNCHANGED <<shellVars, queryVars, serverVars, cliVars>>

(* the loop condition fails: "authentication timeout" *)
Timeout ==
    /\ ppc = "loop"
    /\ ~mayPoll
    /\ ppc' = "done"
    /\ polled' = <<Return("authentication timeout", "")>>
    /\ UNCHANGED <<pollCount, getTokenCalls, last>>
    /\ UNCHANGED <<shellVars, queryVars, serverVars, cliVars>>

NextPoll ==
    \/ NextAttempt
    \/ \E r \in GetTokenResults : GetToken(r)
    \/ Timeout

SpecPoll == InitPoll /\ [][NextPoll]_vars

(* ------------------------------------------------------------------ *)
(* Properties of pollForToken                                          *)
(* ------------------------------------------------------------------ *)

(* the state part of C14 *)
PollingBounded ==
    /\ getTokenCalls <= 120
    /\ pollCount <= 120
    /\ ppc # "done" => ENABLED NextPoll
    /\ ppc = "done" => polled # <<>> /\ ~ENABLED NextPoll
    /\ ppc = "done" /\ polled[1].err = "authentication timeout" => getTokenCalls = 120
    /\ ppc = "loop" /\ pollCount = 120 => ENABLED Timeout /\ ~ENABLED NextAttempt

(* C14: pollForToken makes at most 120 token requests and always returns:  *)
(* it is never stuck before it has returned, every step either returns or  *)
(* uses up one unit of the budget of 120 attempts and 120 requests (so no  *)
(* run goes on for ever), and when the 120th attempt yields neither a      *)
(* token nor a terminal error it returns the timeout error.                *)
C14_BoundedPolling ==
    /\ []PollingBounded
    /\ [][\/ ppc # "done" /\ ppc' = "done"
          \/ pollCount' + getTokenCalls' = pollCount + getTokenCalls + 1]_pollVars

C14_Witness == ppc = "done" /\ polled[1].err = "authentication timeout"

Last(code) == last # <<>> /\ last[1].api /\ last[1].code = code

(* C15: after authorization_pending on an attempt before the 120th the     *)
(* loop goes on to another attempt; after access_denied polling has ended  *)
(* with a failure; after a token polling has ended and that token is       *)
(* returned; once polling has ended no further request is made.            *)
C15_ThreeOutcomes ==
    /\ ppc # "get_token" /\ Last("authorization_pending") /\ pollCount < 120 =>
          ppc = "loop" /\ ENABLED NextAttempt
    /\ ppc # "get_token" /\ Last("access_denied") =>
          ppc = "done" /\ polled = <<Return("authorization was denied", "")>>
    /\ ppc # "get_token" /\ last # <<>> /\ last[1].ok =>
          ppc = "done" /\ polled = <<Return("nil", last[1].token)>>
    /\ ppc = "done" => ~ENABLED NextPoll

C15_Witness ==
    \/ ppc = "done" /\ Last("access_denied") /\ pollCount = 5
    \/ ppc = "done" /\ polled = <<Return("nil", "tokenB")>> /\ pollCount = 7
    \/ ppc = "loop" /\ Last("authorization_pending") /\ pollCount = 119

LastInvalidCode == Last("Invalid device code") \/ Last("invalid_device_code")

(* C16: an invalid-device-code answer on one of the first three attempts   *)
(* does not end polling; on the fourth or a later attempt it ends polling  *)
(* at once with a failure.                                                 *)
C16_InvalidCodeTolerance ==
    /\ ppc # "get_token" /\ LastInvalidCode /\ pollCount <= 3 =>
          ppc = "loop" /\ polled = <<>> /\ ENABLED NextAttempt
    /\ ppc # "get_token" /\ LastInvalidCode /\ pollCount >= 4 =>
          ppc = "done" /\ polled = <<Return("device code not found", "")>>

C16_Witness ==
    \/ LastInvalidCode /\ pollCount = 3 /\ ppc = "loop"
    \/ LastInvalidCode /\ pollCount = 4 /\ ppc = "done"


(* a failure of GetToken that pollForToken has no branch for: an error that *)
(* is no APIError (no reply, or the local check of the device code), or an  *)
(* APIError with another code                                               *)
OtherFailure(r) ==
    /\ ~r.ok
    /\ r.api => r.code \notin {"authorization_pending", "access_denied",
                               "Invalid device code", "invalid_device_code",
                               "Device code expired", "device_code_expired"}

(* C28: a GetToken failure that is a non-API error or an APIError with a   *)
(* code other than the four known ones never ends the polling: the loop    *)
(* goes on to the next attempt, and if such a failure is the last answer   *)
(* when pollForToken returns, it returns the timeout after 120 attempts.   *)
C28_OtherErrorsKeepPolling ==
    /\ [](last # <<>> /\ OtherFailure(last[1]) /\ ppc = "done" =>
             /\ polled = <<Return("authentication timeout", "")>>
             /\ pollCount = maxPolls
             /\ getTokenCalls = maxPolls)
    /\ [][ppc = "get_token" /\ last' # <<>> /\ OtherFailure(last'[1]) =>
             ppc' = "loop" /\ polled' = polled /\ pollCount' = pollCount]_pollVars

(* the last of 120 attempts failed without a reply, then the timeout *)
C28_Witness ==
    /\ ppc = "done"
    /\ last = <<[ok |-> FALSE, api |-> FALSE, code |-> "", token |-> ""]>>
    /\ polled = <<Return("authentication timeout", "")>>
    /\ getTokenCalls = maxPolls

(* ================================================================== *)
(* runServerList: the count fetches in parallel, then the table        *)
(* ================================================================== *)

MaxServers == 3

(* api.Server, as far as the table shows it (the description and the    *)
(* creation date are reformatted per row and do not depend on the rest) *)
Server(id, name, active) == [ID |-> id, Name |-> name, IsActive |-> active]

(* the project's servers, as ListServers returned them *)
ServerList(n) ==
    [i \in 1..n |-> Server(<<"s", i>>, <<"server", i>>, i % 2 = 1)]

(* a slot of make([]serverWithCount, len(servers)) before it is written *)
ZeroSlot == [Server |-> Server(<<>>, <<>>, FALSE), NameserverCount |-> 0]

(* "Count active databases (nameservers)" *)
countActive(dbs) == Cardinality({ i \in 1..Len(dbs) : dbs[i].IsActive })

(* mutant: every goroutine sees the server of the last iteration *)
taskServerOfLastIteration(i) == servers[Len(servers)]

(* the server handed to goroutine i: go func(idx, srv) {...}(i, server) *)
taskServer(i) == servers[i]

InitServers ==
    /\ spc = "spawn"
    /\ servers \in { ServerList(n) : n \in 0..MaxServers }
    /\ idx = 1
    /\ wg = 0
    /\ tasks = [i \in 1..Len(servers) |-> [st |-> "none", res |-> NotListed]]
    /\ serversWithCounts = [i \in 1..Len(servers) |-> ZeroSlot]
    /\ errors = [i \in 1..Len(servers) |-> "nil"]
    /\ table = <<>>
    /\ warnings = {}
    /\ listCalls = <<>>
    /\ writers = [i \in 1..Len(servers) |-> <<>>]
    /\ ShellOff
    /\ QueryOff
    /\ PollOff
    /\ CliOff

(* len(servers) == 0: "No servers found in this project." *)
NoServers ==
    /\ spc = "spawn"
    /\ Len(servers) = 0
    /\ spc' = "done"
    /\ UNCHANGED <<servers, idx, wg, tasks, serversWithCounts, errors, table, warnings,
                   listCalls, writers>>
    /\ UNCHANGED <<shellVars, queryVars, pollVars, cliVars>>

(* one iteration of the spawning loop: wg.Add(1); go func(...) *)
Spawn ==
    /\ spc = "spawn"
    /\ idx <= Len(servers)
    /\ wg' = wg + 1
    /\ tasks' = [tasks EXCEPT ![idx].st = "started"]
    /\ idx' = idx + 1
    /\ spc' = IF idx = Len(servers) THEN "wait" ELSE "spawn"
    /\ UNCHANGED <<servers, serversWithCounts, errors, table, warnings, listCalls, writers>>
    /\ UNCHANGED <<shellVars, queryVars, pollVars, cliVars>>

(* goroutine i: client.ListDatabases(accessToken, projectID, srv.ID) returns *)
TaskFetch(i, res) ==
    /\ tasks[i].st = "started"
    /\ tasks' = [tasks EXCEPT ![i] = [st |-> "fetched", res |-> res]]
    /\ listCalls' = Append(listCalls, taskServer(i).ID)
    /\ UNCHANGED <<spc, servers, idx, wg, serversWithCounts, errors, table, warnings, writers>>
    /\ UNCHANGED <<shellVars, queryVars, pollVars, cliVars>>

(* goroutine i stores the error, if any, and its slot *)
TaskStore(i) ==
    /\ tasks[i].st = "fetched"
    /\ tasks' = [tasks EXCEPT ![i].st = "stored"]
    /\ errors' = IF tasks[i].res.ok THEN errors ELSE [errors EXCEPT ![i] = "err"]
    /\ serversWithCounts' =
          [serversWithCounts EXCEPT ![i] =
              [Server |-> taskServer(i),
               NameserverCount |-> IF tasks[i].res.ok THEN countActive(tasks[i].res.dbs) ELSE 0]]
    /\ writers' = [writers EXCEPT ![i] = Append(@, [task |-> i, at |-> spc])]
    /\ UNCHANGED <<spc, servers, idx, wg, table, warnings, listCalls>>
    /\ UNCHANGED <<shellVars, queryVars, pollVars, cliVars>>

(* goroutine i ends: the deferred wg.Done() *)
TaskDone(i) ==
    /\ tasks[i].st = "stored"
    /\ tasks' = [tasks EXCEPT ![i].st = "done"]
    /\ wg' = wg - 1
    /\ UNCHANGED <<spc, servers, idx, serversWithCounts, errors, table, warnings,
                   listCalls, writers>>
    /\ UNCHANGED <<shellVars, queryVars, pollVars, cliVars>>

(* mutant: the table is printed without waiting for the goroutines *)
waitOverAtOnce == TRUE

(* wg.Wait() returns *)
waitOver == wg = 0

(* wg.Wait() has returned; the heading of the table is printed *)
Wait ==
    /\ spc = "wait"
    /\ waitOver
    /\ spc' = "render"
    /\ idx' = 1
    /\ UNCHANGED <<servers, wg, tasks, serversWithCounts, errors, table, warnings,
                   listCalls, writers>>
    /\ UNCHANGED <<shellVars, queryVars, pollVars, cliVars>>

(* one iteration of "for _, item := range serversWithCounts" *)
RenderRow ==
    /\ spc = "render"
    /\ idx <= Len(serversWithCounts)
    /\ table' = Append(table,
                   [ID |-> serversWithCounts[idx].Server.ID,
                    Name |-> serversWithCounts[idx].Server.Name,
                    Nameservers |-> serversWithCounts[idx].NameserverCount,
                    Status |-> IF serversWithCounts[idx].Server.IsActive
                               THEN "Active" ELSE "Inactive"])
    /\ idx' = idx + 1
    /\ spc' = IF idx = Len(serversWithCounts) THEN "warn" ELSE "render"
    /\ UNCHANGED <<servers, wg, tasks, serversWithCounts, errors, warnings, listCalls, writers>>
    /\ UNCHANGED <<shellVars, queryVars, pollVars, cliVars>>

(* "Show any errors (non-critical, just warn)" *)
Warnings ==
    /\ spc = "warn"
    /\ warnings' = { servers[i].ID : i \in { j \in 1..Len(errors) : errors[j] # "nil" } }
    /\ spc' = "done"
    /\ UNCHANGED <<servers, idx, wg, tasks, serversWithCounts, errors, table, listCalls, writers>>
    /\ UNCHANGED <<shellVars, queryVars, pollVars, cliVars>>

NextServers ==
    \/ NoServers
    \/ Spawn
    \/ \E i \in 1..Len(servers) : \E res \in ListResults : TaskFetch(i, res)
    \/ \E i \in 1..Len(servers) : TaskStore(i)
    \/ \E i \in 1..Len(servers) : TaskDone(i)
    \/ Wait
    \/ RenderRow
    \/ Warnings

SpecServers == InitServers /\ [][NextServers]_vars

(* ------------------------------------------------------------------ *)
(* Properties of runServerList                                         *)
(* ------------------------------------------------------------------ *)

Occurrences(seq, x) == Cardinality({ i \in 1..Len(seq) : seq[i] = x })

(* C17: for N >= 1 servers, once the listing is done exactly N count       *)
(* fetches were started, one ListDatabases call per server, and the table  *)
(* has exactly N rows, row i showing server i of the API's list with the   *)
(* number of active nameservers fetched for it, or 0 when its fetch        *)
(* failed; at no time are there more fetches than servers.                 *)
C17_OneFetchAndOneRowPerServer ==
    /\ Len(listCalls) <= Len(servers)
    /\ \A i \in 1..Len(servers) : Occurrences(listCalls, servers[i].ID) <= 1
    /\ spc = "done" /\ Len(servers) >= 1 =>
          /\ Len(listCalls) = Len(servers)
          /\ \A i \in 1..Len(servers) : Occurrences(listCalls, servers[i].ID) = 1
          /\ Len(table) = Len(servers)
          /\ \A i \in 1..Len(servers) :
                /\ table[i].ID = servers[i].ID
                /\ table[i].Name = servers[i].Name
                /\ table[i].Status = (IF servers[i].IsActive THEN "Active" ELSE "Inactive")
                /\ table[i].Nameservers =
                      (IF tasks[i].res.ok THEN countActive(tasks[i].res.dbs) ELSE 0)

C17_Witness ==
    /\ spc = "done"
    /\ Len(servers) = 3
    /\ ~tasks[2].res.ok
    /\ tasks[1].res.ok
    /\ listCalls = <<servers[3].ID, servers[1].ID, servers[2].ID>>

(* C18: the table is begun only after every count fetch has finished; slot *)
(* i of the results and of the errors is written by task i only, at most   *)
(* once, and never after the rendering has begun.                          *)
C18_JoinBeforeRender ==
    /\ spc \in {"render", "warn", "done"} /\ Len(servers) >= 1 =>
          \A i \in 1..Len(servers) : tasks[i].st = "done"
    /\ \A i \in 1..Len(servers) :
          /\ Len(writers[i]) <= 1
          /\ \A k \in 1..Len(writers[i]) :
                writers[i][k].task = i /\ writers[i][k].at \in {"spawn", "wait"}
          /\ writers[i] = <<>> => serversWithCounts[i] = ZeroSlot /\ errors[i] = "nil"

C18_Witness ==
    /\ spc = "render"
    /\ Len(servers) = 3
    /\ idx = 2
    /\ writers[1][1].at = "spawn"
    /\ writers[3][1].at = "wait"


(* ================================================================== *)
(* The commands and the local config file                              *)
(* ================================================================== *)

(* runConfigSetToken refuses a token longer than this *)
maxTokenLen == 1000

(* the config file: whether it exists, whether it can be read and parsed, *)
(* the access_token in it, and whether expires_at lies in the past        *)
ConfigFile(exists, parses, token, expired) ==
    [exists |-> exists, parses |-> parses, AccessToken |-> token, expired |-> expired]

NoFile == ConfigFile(FALSE, FALSE, "", FALSE)

ConfigFiles ==
    { NoFile, ConfigFile(TRUE, FALSE, "", FALSE) }
      \cup { ConfigFile(TRUE, TRUE, tok, exp) : tok \in {"", "tokenA"}, exp \in BOOLEAN }

(* ConfigManager.GetToken: the config and the error it returns *)
GetTokenOf(f) ==
    IF ~f.exists THEN [config |-> <<>>, err |-> "nil"]
    ELSE IF ~f.parses THEN [config |-> <<>>, err |-> "read error"]
    ELSE IF f.expired THEN [config |-> <<>>, err |-> "token expired"]
    ELSE [config |-> <<f>>, err |-> "nil"]

(* ConfigManager.GetAccessToken *)
GetAccessToken(f) ==
    IF GetTokenOf(f).err # "nil" \/ GetTokenOf(f).config = <<>> THEN ""
    ELSE GetTokenOf(f).config[1].AccessToken

(* the commands that need a login and a selection, with or without an *)
(* argument where the argument is optional                            *)
Commands ==
    { [name |-> n, arg |-> TRUE] :
         n \in {"sql", "server", "server shell", "ns", "ns create", "ns initialize", "ns shell"} }
      \cup { [name |-> n, arg |-> FALSE] :
                n \in {"server", "server list", "ns", "ns list", "ns initialize"} }

(* the commands that check cfg.GetSelectedServer() at the start *)
needsServer(c) == c.name \in {"sql", "ns", "ns list", "ns create", "ns initialize", "ns shell"}

(* mutant: the selections are looked at before the login *)
preconditionErrorTokenLast(c) ==
    IF selProject = "" THEN "no project selected"
    ELSE IF needsServer(c) /\ selServer = "" THEN "no server selected"
    ELSE IF GetAccessToken(file) = "" THEN "not logged in"
    ELSE "nil"

(* the checks at the start of a command, in the order they are made: *)
(* the error returned by the first that fails, "nil" if all pass     *)
preconditionError(c) ==
    IF GetAccessToken(file) = "" THEN "not logged in"
    ELSE IF selProject = "" THEN "no project selected"
    ELSE IF needsServer(c) /\ selServer = "" THEN "no server selected"
    ELSE "nil"

InitCli ==
    /\ file \in ConfigFiles
    /\ selProject \in {"", "p1"}
    /\ selServer \in {"", "s1"}
    /\ command = <<>>
    /\ cerr = "nil"
    /\ requests = 0
    /\ authCalls = <<>>
    /\ notice = ""
    /\ ShellOff
    /\ QueryOff
    /\ PollOff
    /\ ServersOff

(* one of the sql, server, ns and shell commands is run: the checks, and  *)
(* if they pass the rest of the command, which makes API requests (asks)  *)
(* and ends with err, or ends without a request when there is nothing to  *)
(* show (no argument and nothing selected) or the argument is rejected    *)
RunCommand(c, asks, err) ==
    /\ command' = <<c>>
    /\ IF preconditionError(c) # "nil"
       THEN asks /\ err = "nil" /\ cerr' = preconditionError(c) /\ requests' = 0
       ELSE /\ ~asks => \/ ~c.arg /\ c.name = "server" /\ selServer = ""
                        \/ ~c.arg /\ c.name \in {"ns", "ns initialize"}
                        \/ c.name = "ns create"
            /\ ~c.arg /\ c.name = "server" /\ selServer = "" => ~asks
            /\ cerr' = err
            /\ requests' = IF asks THEN 1 ELSE 0
    /\ authCalls' = <<>>
    /\ notice' = ""
    /\ UNCHANGED <<file, selProject, selServer>>
    /\ UNCHANGED <<shellVars, queryVars, pollVars, serverVars>>

(* runLogout: nothing to do unless GetToken yields a config; otherwise  *)
(* RemoveToken, whose os.Remove succeeds (removed) or fails             *)
runLogout(removed) ==
    /\ command' = <<[name |-> "logout", arg |-> FALSE]>>
    /\ requests' = 0
    /\ IF GetTokenOf(file).err # "nil" \/ GetTokenOf(file).config = <<>>
       THEN removed /\ cerr' = "nil" /\ UNCHANGED file
       ELSE IF removed
       THEN cerr' = "nil" /\ file' = NoFile
       ELSE cerr' = "failed to remove token" /\ UNCHANGED file
    /\ authCalls' = <<>>
    /\ notice' = ""
    /\ UNCHANGED <<selProject, selServer>>
    /\ UNCHANGED <<shellVars, queryVars, pollVars, serverVars>>

(* time passes: the stored token is past its expires_at *)
TokenExpires ==
    /\ file.exists /\ file.parses /\ ~file.expired
    /\ file' = [file EXCEPT !.expired = TRUE]
    /\ UNCHANGED <<selProject, selServer, command, cerr, requests, authCalls, notice>>
    /\ UNCHANGED <<shellVars, queryVars, pollVars, serverVars>>

(* a request of login or config set token: the call, the bearer token it *)
(* carries ("" if none) and how it ended                                  *)
AuthCall(call, token, result) == [call |-> call, token |-> token, result |-> result]

(* mutant: the token is saved whatever the lookup says *)
validatedAlways(user) == TRUE

(* GetCurrentUser returned no error *)
validated(user) == user = "ok"

(* runConfigSetToken: the length checks, the current-user lookup with the *)
(* token, then SaveToken, whose WriteFile succeeds (saved) or fails and   *)
(* then leaves the old file or a truncated one                            *)
runConfigSetToken(t, user, saved, truncated) ==
    /\ command' = <<[name |-> "config set token", arg |-> TRUE]>>
    /\ UNCHANGED <<selProject, selServer>>
    /\ UNCHANGED <<shellVars, queryVars, pollVars, serverVars>>
    /\ IF t.len = 0 \/ t.len > maxTokenLen
       THEN /\ user = "ok" /\ saved /\ ~truncated
            /\ cerr' = IF t.len = 0 THEN "token cannot be empty" ELSE "token too long"
            /\ authCalls' = <<>>
            /\ requests' = 0
            /\ notice' = ""
            /\ UNCHANGED file
       ELSE /\ authCalls' = <<AuthCall("GetCurrentUser", t.text, user)>>
            /\ requests' = 1
            /\ IF ~validated(user)
               THEN /\ saved /\ ~truncated
                    /\ cerr' = "invalid token"
                    /\ notice' = ""
                    /\ UNCHANGED file
               ELSE IF saved
               THEN /\ ~truncated
                    /\ file' = ConfigFile(TRUE, TRUE, t.text, FALSE)
                    /\ cerr' = "nil"
                    /\ notice' = "Token saved successfully!"
               ELSE /\ file' = IF truncated THEN ConfigFile(TRUE, FALSE, "", FALSE) ELSE file
                    /\ cerr' = "failed to save token"
                    /\ notice' = ""

(* mutant: login starts the device flow whatever is stored *)
alreadyLoggedInNever(user) == FALSE

(* runLogin's test of the stored token: there is one and GetCurrentUser *)
(* returned a user for it                                               *)
alreadyLoggedIn(user) == GetAccessToken(file) # "" /\ user = "ok"

(* runLogin: the stored token is tried first; otherwise a device code is  *)
(* requested (dc: the request succeeds), in headless mode the URL is      *)
(* shown, else pollForToken runs and its token is saved                   *)
runLogin(user, dc, headless, poll, saved) ==
    LET lookup == IF GetAccessToken(file) # ""
                  THEN <<AuthCall("GetCurrentUser", GetAccessToken(file), user)>>
                  ELSE <<>>
    IN  /\ command' = <<[name |-> "login", arg |-> FALSE]>>
        /\ GetAccessToken(file) = "" => user = "ok"
        /\ UNCHANGED <<selProject, selServer>>
        /\ UNCHANGED <<shellVars, queryVars, pollVars, serverVars>>
        /\ IF alreadyLoggedIn(user)
           THEN /\ dc /\ headless /\ saved /\ poll.err = "nil"
                /\ authCalls' = lookup
                /\ notice' = "Already logged in!"
                /\ cerr' = "nil"
                /\ UNCHANGED file
           ELSE IF ~dc
           THEN /\ headless /\ saved /\ poll.err = "nil"
                /\ authCalls' = lookup \o <<AuthCall("InitiateDeviceCode", "", "api error")>>
                /\ notice' = ""
                /\ cerr' = "failed to initiate device code"
                /\ UNCHANGED file
           ELSE IF headless
           THEN /\ saved /\ poll.err = "nil"
                /\ authCalls' = lookup \o <<AuthCall("InitiateDeviceCode", "", "ok")>>
                /\ notice' = "Visit the following URL to login:"
                /\ cerr' = "nil"
                /\ UNCHANGED file
           ELSE /\ authCalls' = lookup \o <<AuthCall("InitiateDeviceCode", "", "ok"),
                                            AuthCall("GetToken", "", poll.err)>>
                /\ IF poll.err # "nil"
                   THEN saved /\ cerr' = "authentication failed" /\ notice' = "" /\ UNCHANGED file
                   ELSE IF saved
                   THEN /\ file' = ConfigFile(TRUE, TRUE, poll.token, FALSE)
                        /\ cerr' = "nil"
                        /\ notice' = "Authentication complete!"
                   ELSE cerr' = "failed to save token" /\ notice' = "" /\ UNCHANGED file
        /\ requests' = Len(authCalls')

(* config set token is run with some argument (given with its length);   *)
(* the lookup ends with HTTP 200, an error reply or no reply              *)
ConfigSetTokenStep ==
    \E t \in { [text |-> "", len |-> 0],
                [text |-> "tokenA", len |-> 6],
                [text |-> "tokenB", len |-> 6],
                [text |-> "tokenLong", len |-> maxTokenLen + 1] } :
       \E user \in {"ok", "api error", "transport error"} :
          \E saved, truncated \in BOOLEAN :
             runConfigSetToken(t, user, saved, truncated)

(* login is run; pollForToken returns a token or an error *)
LoginStep ==
    \E user \in {"ok", "api error", "transport error"} :
       \E dc, headless, saved \in BOOLEAN :
          \E poll \in { [err |-> "nil", token |-> "tokenB"],
                        [err |-> "failed", token |-> ""] } :
             runLogin(user, dc, headless, poll, saved)

NextCli ==
    \/ \E c \in Commands : \E asks \in BOOLEAN : \E err \in {"nil", "failed"} :
          RunCommand(c, asks, err)
    \/ \E removed \in BOOLEAN : runLogout(removed)
    \/ TokenExpires
    \/ ConfigSetTokenStep
    \/ LoginStep

SpecCli == InitCli /\ [][NextCli]_vars

(* ------------------------------------------------------------------ *)
(* Properties of the commands                                          *)
(* ------------------------------------------------------------------ *)

(* the stored access token can be used: the file is there, parses, is not *)
(* expired and holds a non-empty access_token                             *)
UsableToken == file.exists /\ file.parses /\ ~file.expired /\ file.AccessToken # ""

ServerRequired ==
    command[1].name \in {"sql", "ns", "ns list", "ns create", "ns initialize", "ns shell"}

(* C19: a sql, server, ns or shell command run without a usable access     *)
(* token returns "not logged in"; with a token but no selected project,    *)
(* "no project selected"; with both but, where a server is required, no    *)
(* selected server, "no server selected"; in each case without any API     *)
(* request.  (The step is the whole command: the config is the same before *)
(* and after it.)                                                          *)
C19_PreconditionsBeforeRequests ==
    [][command' # command /\ command'[1] \in Commands =>
          /\ ~UsableToken => cerr' = "not logged in" /\ requests' = 0
          /\ UsableToken /\ selProject = "" =>
                cerr' = "no project selected" /\ requests' = 0
          /\ UsableToken /\ selProject # "" /\ ServerRequired' /\ selServer = "" =>
                cerr' = "no server selected" /\ requests' = 0]_cliVars

C19_Witness ==
    /\ command # <<>>
    /\ command[1].name = "sql"
    /\ UsableToken
    /\ selProject # ""
    /\ selServer = ""
    /\ cerr = "no server selected"

(* C20: after logout has returned without error, no access token is stored *)
(* in the config file, whatever the stored token was before.               *)
C20_LogoutRemovesToken ==
    [][command' # command /\ command'[1].name = "logout" /\ cerr' = "nil" =>
          ~(file'.exists /\ file'.AccessToken # "")]_cliVars

(* C21: config set token changes the config file only after the current-user *)
(* lookup with the given token has succeeded, and what it then stores, when  *)
(* it returns without error, is that token; when the lookup fails it returns *)
(* the "invalid token" error and the config file is as it was.               *)
C21_StoredOnlyAfterValidation ==
    [][ConfigSetTokenStep =>
          /\ file' # file =>
                /\ Len(authCalls') = 1
                /\ authCalls'[1].call = "GetCurrentUser"
                /\ authCalls'[1].result = "ok"
          /\ cerr' = "nil" =>
                /\ authCalls' = <<AuthCall("GetCurrentUser", file'.AccessToken, "ok")>>
                /\ file'.exists /\ file'.parses /\ ~file'.expired
          /\ Len(authCalls') = 1 /\ authCalls'[1].result # "ok" =>
                cerr' = "invalid token" /\ file' = file]_cliVars

C21_Witness ==
    /\ command = <<[name |-> "config set token", arg |-> TRUE]>>
    /\ cerr = "nil"
    /\ file.AccessToken = "tokenB"
    /\ authCalls = <<AuthCall("GetCurrentUser", "tokenB", "ok")>>

(* C22: login run with a stored, unexpired token that the API accepts       *)
(* reports the current user and returns without error; its only request is  *)
(* the current-user lookup with that token (no device code, no token poll)  *)
(* and the config file is unchanged.                                        *)
C22_LoginKeepsValidSession ==
    [][LoginStep /\ UsableToken /\ authCalls'[1].result = "ok" =>
          /\ notice' = "Already logged in!"
          /\ cerr' = "nil"
          /\ authCalls' = <<AuthCall("GetCurrentUser", file.AccessToken, "ok")>>
          /\ file' = file]_cliVars

C22_Witness ==
    /\ command = <<[name |-> "login", arg |-> FALSE]>>
    /\ UsableToken
    /\ notice = "Already logged in!"
    /\ authCalls = <<AuthCall("GetCurrentUser", "tokenA", "ok")>>

====
